---- MODULE Spec2Model ----
(***************************************************************************)
(* The backend of the AI Music Studio: the REST routes of the express      *)
(* router (upload, clone-voice, generate-vocals, generate-music, mix,      *)
(* cleanup), the shared temp directory they write to, and the error        *)
(* handling middleware of the server.                                      *)
(*                                                                         *)
(* One request per route is in flight at a time; a route's handler is cut  *)
(* into one action per await, so that requests of different routes and the *)
(* synchronous cleanup sweep interleave exactly where node's event loop    *)
(* lets them.  The hosted API, tar, ffprobe and ffmpeg are the             *)
(* environment: each await resumes with one of the outcomes the call can   *)
(* have.                                                                   *)
(*                                                                         *)
(* The Beat Studio of the front end is a second machine with its own       *)
(* specifications: the component state and its handlers, the generator of  *)
(* generateBeat and the WAV encoder of bufferToWav.                        *)
(***************************************************************************)
EXTENDS Integers, Sequences, FiniteSets, TLC

\* ------------------------------------------------------------- bounds

\* file names the model lets the routes hand out: the uuidv4() calls for
\* uploads, vocals, beats and mixes (the intermediate files of a
\* generate-vocals request come on top, one of each per request)
MaxUuid == 2
\* files one clone-voice request carries (upload.array('files', 10) allows 10)
MaxCloneFiles == 2
\* the one hour of the cleanup threshold, in ticks of the model's clock
HourTicks == 1

\* file ages are followed up to one tick past the threshold
MaxAge == HourTicks + 1

\* ------------------------------------------------------ names and files

Routes == {"upload", "clone-voice", "generate-vocals", "generate-music", "mix", "cleanup"}

\* prefix "" is multer's `${uuidv4()}${ext}`
Prefixes == {"", "vocals-", "fullsong-", "stems-", "extract-", "beat-", "mixed-"}

NoName == [prefix |-> "none", n |-> 0, ext |-> ""]

FileName(prefix, n, ext) == [prefix |-> prefix, n |-> n, ext |-> ext]

\* what a file holds: the kind of content and the file it was first written as
Data(what, src) == [what |-> what, src |-> src]

\* path.extname on a name given as its dot-separated segments: the last
\* segment when there is more than one, '' otherwise (also for '.mp3')
Extname(originalname) ==
    IF Len(originalname) >= 2 THEN originalname[Len(originalname)] ELSE ""

\* String.prototype.toLowerCase on the extensions of the model
ToLowerCase(s) ==
    CASE s = ".MP3" -> ".mp3"
      [] s = "Vocals" -> "vocals"
      [] OTHER -> s

\* the names and MIME types a client uploads
UploadNames == {<<"beat", ".MP3">>, <<"blob">>, <<"tool", ".exe">>}
MimeTypes == {"audio/mpeg", "application/octet-stream"}

StartsWithAudio(mimetype) == mimetype \in {"audio/mpeg", "audio/wav", "audio/ogg"}

NoFile == [originalname |-> <<>>, mimetype |-> "none"]

UploadFiles == [originalname : UploadNames, mimetype : MimeTypes]

\* ----------------------------------------------------------- responses

NoError == <<>>
NoUrl == [path |-> "none", file |-> NoName]

\* a url built without the /api mount point of the router
FileUrlUnmounted(filename) == [path |-> "/files/", file |-> filename]

\* `/api/files/${filename}`
FileUrl(filename) == [path |-> "/api/files/", file |-> filename]

\* res.status(status).json({ error })
JsonError(status, message) ==
    [status |-> status, error |-> message, filename |-> NoName, url |-> NoUrl,
     message |-> "", voiceId |-> "none", count |-> 0]

\* res.json({ message, filename, url })
JsonFile(message, filename, url) ==
    [status |-> 200, error |-> NoError, filename |-> filename, url |-> url,
     message |-> message, voiceId |-> "none", count |-> 0]

\* res.json({ message, voiceId, name })
JsonVoice(message, voiceId) ==
    [status |-> 200, error |-> NoError, filename |-> NoName, url |-> NoUrl,
     message |-> message, voiceId |-> voiceId, count |-> 0]

\* res.json({ message: `Cleaned up ${deleted} old files` })
JsonCount(message, deleted) ==
    [status |-> 200, error |-> NoError, filename |-> NoName, url |-> NoUrl,
     message |-> message, voiceId |-> "none", count |-> deleted]

\* an error middleware that forgets res.status(500)
ErrorMiddlewareNoStatus(message) ==
    [status |-> 200, error |-> IF message = <<>> THEN <<"Something went wrong">> ELSE message,
     filename |-> NoName, url |-> NoUrl, message |-> "", voiceId |-> "none", count |-> 0]

\* the server's error handling middleware, reached through next(err)
ErrorMiddleware(message) ==
    JsonError(500, IF message = <<>> THEN <<"Something went wrong">> ELSE message)

VARIABLES
    dir,        \* the temp directory: a set of entries
    uuid,       \* per prefix, the uuidv4() values drawn so far
    env,        \* the process environment: API key, installed CLI tools
    resp,       \* per route, the responses sent for its current request
    up,         \* the upload request
    cv,         \* the clone-voice request
    gv,         \* the generate-vocals request
    gm,         \* the generate-music request
    mx,         \* the mix request
    cl,         \* the cleanup request
    gen,        \* Beat Studio: what one call of generateBeat has set
    wav,        \* Beat Studio: one call of bufferToWav, its buffer and its bytes
    drumSteps,        \* useState: the columns of the drum grid
    melodySteps,      \* useState: the columns of the melody grid
    drumPattern,      \* useState: instrument -> array of booleans
    melodyPattern,    \* useState: array of note arrays
    mergePattern,     \* useState: array of the notes marked merged
    bpm,              \* useState: the tempo
    isMergeMode,      \* useState, and isMergeModeRef
    rafCallbacks,     \* the callbacks waiting for the next animation frame
    batchedUpdates,   \* batchedUpdatesRef: the updates waiting for the timeout
    drag,             \* isDraggingRef, lastDragCellRef and the document listeners
    mounted,          \* FALSE once a state updater has thrown or the parent unmounted it
    isPlaying,        \* useState
    audioReady,       \* useState
    isExporting,      \* useState
    transport,        \* Tone.Transport.state
    calls,            \* the calls of the async handlers that wait on a promise
    sequence,         \* sequenceRef, the Tone.Sequence objects and the effect's dependencies
    app,              \* App: the useState values
    fetches,          \* App: the requests in flight and their handlers' closures
    served            \* the number of files the server has named for the App

backend == <<dir, uuid, env, resp, up, cv, gv, gm, mx, cl>>
grid == <<drumSteps, melodySteps, drumPattern, melodyPattern, mergePattern, bpm>>
editing == <<isMergeMode, rafCallbacks, batchedUpdates, drag, mounted>>
playback == <<isPlaying, audioReady, isExporting, transport, calls>>
studio == <<grid, editing, playback>>
page == <<sequence, app, fetches, served>>
frontend == <<gen, wav, studio, page>>
vars == <<backend, frontend>>

\* ------------------------------------------------------- the directory

Entry(name, isDir, data) == [name |-> name, isDir |-> isDir, age |-> 0, data |-> data]

\* fs.existsSync
Exists(d, name) == \E e \in d : e.name = name

Lookup(d, name) == CHOOSE e \in d : e.name = name

IsFile(d, name) == \E e \in d : e.name = name /\ ~e.isDir

\* fs.writeFileSync / fs.copyFileSync target: creates or replaces, mtime now
WriteFile(d, name, data) ==
    {e \in d : e.name # name} \cup {Entry(name, FALSE, data)}

\* fs.mkdirSync(extractDir) followed by tar filling it
MakeDir(d, name, data) ==
    {e \in d : e.name # name} \cup {Entry(name, TRUE, data)}

\* fs.unlinkSync succeeds on a file and throws on a directory or a missing name
CanUnlink(d, name) == IsFile(d, name)
Unlink(d, name) == {e \in d : e.name # name}

\* fs.rmSync(path, { recursive: true, force: true })
RmRecursive(d, name) == {e \in d : e.name # name}

\* try { fs.unlinkSync(path) } catch (e) {}
TryUnlink(d, name) == IF CanUnlink(d, name) THEN Unlink(d, name) ELSE d

\* uuidv4(): the next value for a prefix
NextUuid(prefix) == uuid[prefix] + 1
Drawn == uuid[""] + uuid["vocals-"] + uuid["beat-"] + uuid["mixed-"]
HasUuid(k) == Drawn + k <= MaxUuid

\* -------------------------------------------------------- environment

\* process.env.ELEVENLABS_API_KEY: unset, the placeholder of .env.example, a key
ApiKeys == {"unset", "your_api_key_here", "key"}
CliTools == {"ffprobe", "ffmpeg"}

\* The API key is read by the hosted-API routes only and the CLI tools by
\* the mix route only: the two vary independently, and three deployments
\* show every value of each.
Deployments ==
    {[apiKey |-> "unset", installed |-> {}],
     [apiKey |-> "your_api_key_here", installed |-> {"ffprobe"}],
     [apiKey |-> "key", installed |-> CliTools]}

\* a value of a JSON body or a multipart field: not sent, null, or a string
Undefined == "undefined"
Null == "null-value"
Truthy(v) == v # Undefined /\ v # Null /\ v # ""

\* String.prototype.trim on the values of the model
Trim(v) == IF v = "   " THEN "" ELSE v

\* getElevenLabsClient throws unless a key is configured
ClientThrows == env.apiKey = "unset" \/ env.apiKey = "your_api_key_here"
KeyNotConfigured ==
    <<"ElevenLabs API key not configured. Please add your key to backend/.env">>

\* a request starts on a route that has none in flight
Free(req) == req.pc \in {"idle", "done"}

UpIdle == [pc |-> "idle", file |-> NoFile, stored |-> NoName]
CvIdle == [pc |-> "idle", files |-> {}, called |-> FALSE, fail |-> "none"]
GvIdle ==
    [pc |-> "idle", lyrics |-> Undefined, voiceId |-> Undefined, vocal |-> NoName, fullSong |-> NoName,
     tar |-> NoName, extract |-> NoName, calls |-> <<>>, tts |-> "none",
     stems |-> "none", fail |-> "none"]
GmIdle == [pc |-> "idle", beat |-> NoName, calls |-> <<>>, fail |-> "none"]
MxIdle ==
    [pc |-> "idle", beat |-> NoName, vocal |-> NoName, mixed |-> NoName,
     calls |-> <<>>, fail |-> "none"]
ClIdle == [pc |-> "idle", fail |-> "none"]

\* Once a handler has returned, its req, res and locals are garbage: the
\* model keeps a finished request and its response for the one state that
\* follows the response, and the next step of any request drops them.
Retire(req, idle) == IF req.pc = "done" THEN idle ELSE req

Finished(route) ==
    CASE route = "upload" -> up.pc = "done"
      [] route = "clone-voice" -> cv.pc = "done"
      [] route = "generate-vocals" -> gv.pc = "done"
      [] route = "generate-music" -> gm.pc = "done"
      [] route = "mix" -> mx.pc = "done"
      [] route = "cleanup" -> cl.pc = "done"

Retired == [r \in Routes |-> IF Finished(r) THEN <<>> ELSE resp[r]]

RetireOthers(route) ==
    /\ IF route = "upload" THEN TRUE ELSE up' = Retire(up, UpIdle)
    /\ IF route = "clone-voice" THEN TRUE ELSE cv' = Retire(cv, CvIdle)
    /\ IF route = "generate-vocals" THEN TRUE ELSE gv' = Retire(gv, GvIdle)
    /\ IF route = "generate-music" THEN TRUE ELSE gm' = Retire(gm, GmIdle)
    /\ IF route = "mix" THEN TRUE ELSE mx' = Retire(mx, MxIdle)
    /\ IF route = "cleanup" THEN TRUE ELSE cl' = Retire(cl, ClIdle)
    /\ UNCHANGED frontend

\* res.json on the route's response object
Send(route, response) == [Retired EXCEPT ![route] = Append(resp[route], response)]
\* the first thing a new request of the route does is to answer
SendFirst(route, response) == [Retired EXCEPT ![route] = <<response>>]
\* a new request of the route has answered nothing yet
Begin(route) == [Retired EXCEPT ![route] = <<>>]
Silent == Retired

\* ------------------------------------------------------------- upload

\* a filter that compares the extension as the client wrote it
FileFilterCaseSensitive(file) ==
    LET allowedTypes == {".mp3", ".wav", ".m4a", ".ogg"}
        ext == Extname(file.originalname)
    IN  ext \in allowedTypes \/ ext = "" \/ StartsWithAudio(file.mimetype)

\* the fileFilter of the multer instance
FileFilter(file) ==
    LET allowedTypes == {".mp3", ".wav", ".m4a", ".ogg"}
        ext == ToLowerCase(Extname(file.originalname))
    IN  ext \in allowedTypes \/ ext = "" \/ StartsWithAudio(file.mimetype)

\* storage.filename
StorageFilename(file, n) == FileName("", n, Extname(file.originalname))

\* POST /upload: multer (filter, size limit, disk storage), then the handler
Upload(file) ==
    /\ IF file = NoFile
       THEN /\ up' = [pc |-> "done", file |-> file, stored |-> NoName]
            /\ resp' = SendFirst("upload", JsonError(400, <<"No file uploaded">>))
            /\ UNCHANGED <<dir, uuid>>
       ELSE IF ~FileFilter(file)
       THEN /\ up' = [pc |-> "done", file |-> file, stored |-> NoName]
            /\ resp' = SendFirst("upload",
                 ErrorMiddleware(<<"Only MP3, WAV, M4A, and OGG files are allowed">>))
            /\ UNCHANGED <<dir, uuid>>
       ELSE LET filename == StorageFilename(file, NextUuid(""))
            IN  /\ HasUuid(1)
                /\ uuid' = [uuid EXCEPT ![""] = @ + 1]
                /\ dir' = WriteFile(dir, filename, Data("upload", filename.n))
                /\ up' = [pc |-> "done", file |-> file, stored |-> filename]
                /\ resp' = SendFirst("upload",
                     JsonFile("Beat uploaded successfully", filename, FileUrl(filename)))
    /\ RetireOthers("upload")
    /\ UNCHANGED <<env>>

UploadRequest == \E file \in UploadFiles \cup {NoFile} : Upload(file)

\* ------------------------------------------------------------ cleanup

\* age > 60 * 60 * 1000
TooOld(e) == e.age > HourTicks

\* DELETE /cleanup.  readdirSync gives the entries in an order the file
\* system chooses; the loop unlinks each old entry it meets, and unlinkSync
\* throws on a directory, which ends the loop in the catch.  `before` is
\* what the loop visited before it met the old directory `hit`.
CleanupSweep(d) ==
    LET oldDirs == {e \in d : TooOld(e) /\ e.isDir}
    IN  IF oldDirs = {}
        THEN {[left |-> {e \in d : ~TooOld(e)},
               deleted |-> Cardinality({e \in d : TooOld(e)}),
               threw |-> FALSE]}
        ELSE {[left |-> d \ before,
               deleted |-> Cardinality(before),
               threw |-> TRUE] : before \in SUBSET {e \in d : TooOld(e) /\ ~e.isDir}}

CleanupRespond(sweep) ==
    IF sweep.threw
    THEN ErrorMiddleware(<<"EISDIR: illegal operation on a directory, unlink">>)
    ELSE JsonCount("Cleaned up old files", sweep.deleted)

CleanupRequest ==
    \E sweep \in CleanupSweep(dir) :
        /\ dir' = sweep.left
        /\ cl' = [pc |-> "done", fail |-> IF sweep.threw THEN "unlink" ELSE "none"]
        /\ resp' = SendFirst("cleanup", CleanupRespond(sweep))
        /\ RetireOthers("cleanup")
        /\ UNCHANGED <<uuid, env>>

\* -------------------------------------------------------- clone-voice

CloneFiles ==
    {[originalname |-> <<"beat", ".MP3">>, mimetype |-> "audio/mpeg"],
     [originalname |-> <<"tool", ".exe">>, mimetype |-> "application/octet-stream"]}

CloneUploads == UNION {[1..k -> CloneFiles] : k \in 0..MaxCloneFiles}

VoiceNames == {Undefined, "   ", "my voice"}

\* req.files.forEach(file => { try { fs.unlinkSync(file.path); } catch (e) {} })
UnlinkUploaded(d, names) == {e \in d : ~(e.name \in names /\ ~e.isDir)}

\* what multer.array stored for the request
StoredUploads(files) ==
    {StorageFilename(files[i], uuid[""] + i) : i \in 1..Len(files)}

StoreUploads(d, names) ==
    d \cup {Entry(name, FALSE, Data("upload", name.n)) : name \in names}

\* the catch of the route: unlink the uploads, answer 500
CloneCatch(d, names) == UnlinkUploaded(d, names)

\* POST /clone-voice up to the await of the https request
CloneVoiceStart(files, name) ==
    /\ Free(cv)
    /\ IF \E i \in 1..Len(files) : ~FileFilter(files[i])
       THEN \* multer removes what it stored and passes the filter's error on
            /\ cv' = [pc |-> "done", files |-> {}, called |-> FALSE, fail |-> "filter"]
            /\ resp' = SendFirst("clone-voice",
                 ErrorMiddleware(<<"Only MP3, WAV, M4A, and OGG files are allowed">>))
            /\ UNCHANGED <<dir, uuid>>
       ELSE LET stored == StoredUploads(files)
                kept == StoreUploads(dir, stored)
            IN  /\ HasUuid(Len(files))
                /\ uuid' = [uuid EXCEPT ![""] = @ + Len(files)]
                /\ IF Len(files) = 0
                   THEN /\ cv' = [pc |-> "done", files |-> stored, called |-> FALSE,
                                  fail |-> "no-files"]
                        /\ resp' = SendFirst("clone-voice",
                             JsonError(400, <<"At least one audio file is required">>))
                        /\ dir' = kept
                   ELSE IF ~Truthy(name) \/ ~Truthy(Trim(name))
                   THEN /\ cv' = [pc |-> "done", files |-> stored, called |-> FALSE,
                                  fail |-> "no-name"]
                        /\ resp' = SendFirst("clone-voice",
                             JsonError(400, <<"Voice name is required">>))
                        /\ dir' = kept
                   ELSE IF env.apiKey = "unset"
                   THEN \* https.request throws on the header 'xi-api-key': undefined
                        /\ cv' = [pc |-> "done", files |-> stored, called |-> FALSE,
                                  fail |-> "header"]
                        /\ resp' = SendFirst("clone-voice",
                             JsonError(500, <<"Invalid value \"undefined\" for header \"xi-api-key\"">>))
                        /\ dir' = CloneCatch(kept, stored)
                   ELSE /\ cv' = [pc |-> "request", files |-> stored, called |-> TRUE,
                                  fail |-> "none"]
                        /\ resp' = Begin("clone-voice")
                        /\ dir' = kept
    /\ RetireOthers("clone-voice")
    /\ UNCHANGED <<env>>

CloneOutcomes == {"voice", "no-voice-id", "api-error", "network-error"}

\* the https request of POST /clone-voice has ended
CloneVoiceDone(outcome) ==
    /\ cv.pc = "request"
    /\ CASE outcome = "voice" ->
              /\ dir' = UnlinkUploaded(dir, cv.files)
              /\ resp' = Send("clone-voice", JsonVoice("Voice cloned successfully", "voice-1"))
              /\ cv' = [cv EXCEPT !.pc = "done"]
         [] outcome = "no-voice-id" ->
              /\ dir' = CloneCatch(UnlinkUploaded(dir, cv.files), cv.files)
              /\ resp' = Send("clone-voice",
                   JsonError(500, <<"Voice cloning succeeded but no voice ID was returned">>))
              /\ cv' = [cv EXCEPT !.pc = "done", !.fail = outcome]
         [] outcome = "api-error" ->
              /\ dir' = CloneCatch(UnlinkUploaded(dir, cv.files), cv.files)
              /\ resp' = Send("clone-voice", JsonError(500, <<"Failed to clone voice">>))
              /\ cv' = [cv EXCEPT !.pc = "done", !.fail = outcome]
         [] outcome = "network-error" ->
              /\ dir' = CloneCatch(dir, cv.files)
              /\ resp' = Send("clone-voice", JsonError(500, <<"Network error">>))
              /\ cv' = [cv EXCEPT !.pc = "done", !.fail = outcome]
    /\ RetireOthers("clone-voice")
    /\ UNCHANGED <<uuid, env>>

CloneVoiceRequest == \E files \in CloneUploads, name \in VoiceNames : CloneVoiceStart(files, name)
CloneVoiceResume == \E outcome \in CloneOutcomes : CloneVoiceDone(outcome)

\* ---------------------------------------------------- generate-vocals

\* req.body.lyrics: not sent, empty, a text, a JSON number
LyricsInputs == {Undefined, "", "la la la", "number"}
IsString(v) == v # "number" /\ v # Undefined

\* req.body.voiceId; the front end sends null, and 'null' after a round trip
VoiceIdInputs == {Undefined, Null, "null", "voice-1"}

\* a hasVoiceId that is only `voiceId &&`, which the string 'null' passes
HasVoiceIdTruthy(voiceId) == Truthy(voiceId)

\* hasVoiceId
HasVoiceId(voiceId) ==
    /\ Truthy(voiceId) /\ voiceId # Null /\ voiceId # Undefined
    /\ voiceId # "" /\ voiceId # "null"

\* the members of the archive separateStems returns, each a file name in
\* segments; members of nested directories are found like those of the root
Archives ==
    {{<<"instrumental", ".mp3">>},
     {<<"vocals", ".mp3">>, <<"instrumental", ".mp3">>},
     {<<"Vocals", ".wav">>, <<"instrumental", ".wav">>},
     {<<"vocals", ".flac">>, <<"instrumental", ".flac">>}}

\* file.toLowerCase().includes('vocal')
IncludesVocal(member) ==
    \E i \in 1..Len(member) : ToLowerCase(member[i]) \in {"vocal", "vocals"}

\* file.endsWith('.mp3') || file.endsWith('.wav')
EndsWithAudio(member) == member[Len(member)] \in {".mp3", ".wav"}

\* findVocalsFile: the members it can return (readdirSync chooses the order)
FindVocalsFile(members) == {m \in members : IncludesVocal(m) /\ EndsWithAudio(m)}

\* the old check of the route, which also wants a voice id
LyricsOrVoiceIdMissing(lyrics, voiceId) == ~Truthy(lyrics) \/ ~Truthy(voiceId)

\* if (!lyrics)
LyricsMissing(lyrics, voiceId) == ~Truthy(lyrics)

\* the outer catch of the route
GvCatch(message) == JsonError(500, message)

\* POST /generate-vocals up to its first await
GenerateVocalsStart(lyrics, voiceId) ==
    /\ Free(gv)
    /\ IF LyricsMissing(lyrics, voiceId)
       THEN /\ gv' = [GvIdle EXCEPT !.pc = "done", !.lyrics = lyrics, !.fail = "no-lyrics"]
            /\ resp' = SendFirst("generate-vocals", JsonError(400, <<"Lyrics are required">>))
            /\ UNCHANGED uuid
       ELSE IF ClientThrows
       THEN /\ gv' = [GvIdle EXCEPT !.pc = "done", !.lyrics = lyrics, !.fail = "api-key"]
            /\ resp' = SendFirst("generate-vocals", GvCatch(KeyNotConfigured))
            /\ UNCHANGED uuid
       ELSE IF ~IsString(lyrics)
       THEN /\ gv' = [GvIdle EXCEPT !.pc = "done", !.lyrics = lyrics, !.fail = "lyrics-type"]
            /\ resp' = SendFirst("generate-vocals", GvCatch(<<"lyrics.split is not a function">>))
            /\ UNCHANGED uuid
       ELSE /\ HasUuid(1)
            /\ uuid' = [uuid EXCEPT !["vocals-"] = @ + 1]
            /\ resp' = Begin("generate-vocals")
            /\ gv' = [GvIdle EXCEPT
                        !.lyrics = lyrics,
                        !.voiceId = voiceId,
                        !.vocal = FileName("vocals-", NextUuid("vocals-"), ".mp3"),
                        !.pc = IF HasVoiceId(voiceId) THEN "tts" ELSE "compose",
                        !.calls = IF HasVoiceId(voiceId) THEN <<"tts">> ELSE <<"compose">>]
    /\ RetireOthers("generate-vocals")
    /\ UNCHANGED <<dir, env>>

TtsOutcomes == {"audio", "http-error", "network-error"}

\* the fetch of the text-to-speech endpoint has ended
GenerateVocalsTts(outcome) ==
    /\ gv.pc = "tts"
    /\ IF outcome = "audio"
       THEN /\ dir' = WriteFile(dir, gv.vocal, Data("speech", gv.vocal.n))
            /\ resp' = Send("generate-vocals",
                 JsonFile("Vocals generated successfully with cloned voice",
                          gv.vocal, FileUrl(gv.vocal)))
            /\ gv' = [gv EXCEPT !.pc = "done", !.tts = outcome]
       ELSE \* catch (ttsError): fall through to the Eleven Music API
            /\ gv' = [gv EXCEPT !.pc = "compose", !.tts = outcome,
                                !.calls = Append(@, "compose")]
            /\ resp' = Silent
            /\ UNCHANGED dir
    /\ RetireOthers("generate-vocals")
    /\ UNCHANGED <<uuid, env>>

\* client.music.compose and the reading of its stream have ended
GenerateVocalsCompose(outcome) ==
    /\ gv.pc = "compose"
    /\ IF outcome = "song"
       THEN LET fullSong == FileName("fullsong-", NextUuid("fullsong-"), ".mp3")
            IN  /\ uuid' = [uuid EXCEPT !["fullsong-"] = @ + 1]
                /\ dir' = WriteFile(dir, fullSong, Data("song", fullSong.n))
                /\ gv' = [gv EXCEPT !.pc = "separate", !.fullSong = fullSong,
                                    !.calls = Append(@, "separateStems")]
                /\ resp' = Silent
       ELSE /\ resp' = Send("generate-vocals", GvCatch(<<"Failed to generate vocals">>))
            /\ gv' = [gv EXCEPT !.pc = "done", !.fail = "compose"]
            /\ UNCHANGED <<dir, uuid>>
    /\ RetireOthers("generate-vocals")
    /\ UNCHANGED <<env>>

\* a finish that answers without the fallback copy of the full song
GenerateVocalsFinishNoCopy(d, stemSeparationSucceeded, stems) ==
    /\ dir' = TryUnlink(d, gv.fullSong)
    /\ resp' = Send("generate-vocals",
         JsonFile("Acapella vocals generated successfully", gv.vocal, FileUrl(gv.vocal)))
    /\ gv' = [gv EXCEPT !.pc = "done", !.stems = stems]

\* from "Fallback: if stem separation failed" to the response: d is the
\* directory the stem separation step left
GenerateVocalsFinish(d, stemSeparationSucceeded, stems) ==
    IF ~stemSeparationSucceeded /\ ~IsFile(d, gv.fullSong)
    THEN \* copyFileSync throws into the outer catch
         /\ dir' = d
         /\ resp' = Send("generate-vocals", GvCatch(<<"ENOENT: no such file or directory, copyfile">>))
         /\ gv' = [gv EXCEPT !.pc = "done", !.stems = stems, !.fail = "copy"]
    ELSE LET copied == IF stemSeparationSucceeded THEN d
                       ELSE WriteFile(d, gv.vocal, Lookup(d, gv.fullSong).data)
         IN  /\ dir' = TryUnlink(copied, gv.fullSong)
             /\ resp' = Send("generate-vocals",
                  JsonFile("Acapella vocals generated successfully",
                           gv.vocal, FileUrl(gv.vocal)))
             /\ gv' = [gv EXCEPT !.pc = "done", !.stems = stems]

SeparateOutcomes == {"throws", "not-gzip", "gzip"}

\* client.music.separateStems and the reading of its stream have ended
GenerateVocalsSeparate(outcome) ==
    /\ gv.pc = "separate"
    /\ IF outcome = "gzip"
       THEN LET tar == FileName("stems-", NextUuid("stems-"), ".tar.gz")
                extract == FileName("extract-", NextUuid("extract-"), "")
            IN  /\ uuid' = [uuid EXCEPT !["stems-"] = @ + 1, !["extract-"] = @ + 1]
                /\ dir' = MakeDir(WriteFile(dir, tar, Data("archive", tar.n)),
                                  extract, Data("extract", extract.n))
                /\ gv' = [gv EXCEPT !.pc = "untar", !.tar = tar, !.extract = extract,
                                    !.calls = Append(@, "tar")]
                /\ resp' = Silent
       ELSE /\ GenerateVocalsFinish(dir, FALSE, outcome)
            /\ UNCHANGED uuid
    /\ RetireOthers("generate-vocals")
    /\ UNCHANGED <<env>>

\* tar -xzf has ended: it failed, or it extracted the members of an archive
GenerateVocalsUntar(failed, members) ==
    /\ gv.pc = "untar"
    /\ IF failed
       THEN \* catch (tarError)
            LET d1 == IF Exists(dir, gv.tar) THEN TryUnlink(dir, gv.tar) ELSE dir
                d2 == IF Exists(d1, gv.extract) THEN RmRecursive(d1, gv.extract) ELSE d1
            IN  GenerateVocalsFinish(d2, FALSE, "tar-failed")
       ELSE LET extracted == MakeDir(dir, gv.extract, Data("extract", gv.extract.n))
                found == FindVocalsFile(members)
            IN  /\ IsFile(dir, gv.tar)
                /\ Exists(dir, gv.extract)
                /\ IF found # {}
                   THEN LET copied == WriteFile(extracted, gv.vocal,
                                                Data("stem", gv.vocal.n))
                            cleaned == IF CanUnlink(copied, gv.tar)
                                       THEN RmRecursive(Unlink(copied, gv.tar), gv.extract)
                                       ELSE copied
                        IN  GenerateVocalsFinish(cleaned, TRUE, "vocal-found")
                   ELSE GenerateVocalsFinish(extracted, FALSE, "no-vocal")
    /\ RetireOthers("generate-vocals")
    /\ UNCHANGED <<uuid, env>>

GenerateVocalsRequest ==
    \E lyrics \in LyricsInputs, voiceId \in VoiceIdInputs : GenerateVocalsStart(lyrics, voiceId)
GenerateVocalsTtsResume == \E outcome \in TtsOutcomes : GenerateVocalsTts(outcome)
GenerateVocalsComposeResume == \E outcome \in {"song", "error"} : GenerateVocalsCompose(outcome)
GenerateVocalsSeparateResume == \E outcome \in SeparateOutcomes : GenerateVocalsSeparate(outcome)
GenerateVocalsUntarResume ==
    \/ GenerateVocalsUntar(TRUE, {})
    \/ \E members \in Archives : GenerateVocalsUntar(FALSE, members)

\* ----------------------------------------------------- generate-music

DescriptionInputs == {Undefined, "   ", "lofi beat"}

\* POST /generate-music up to the await of client.music.compose
GenerateMusicStart(description) ==
    /\ Free(gm)
    /\ IF ~Truthy(description) \/ ~Truthy(Trim(description))
       THEN /\ gm' = [GmIdle EXCEPT !.pc = "done", !.fail = "no-description"]
            /\ resp' = SendFirst("generate-music", JsonError(400, <<"Description is required">>))
       ELSE IF ClientThrows
       THEN /\ gm' = [GmIdle EXCEPT !.pc = "done", !.fail = "api-key"]
            /\ resp' = SendFirst("generate-music", JsonError(500, KeyNotConfigured))
       ELSE /\ gm' = [GmIdle EXCEPT !.pc = "compose", !.calls = <<"compose">>]
            /\ resp' = Begin("generate-music")
    /\ RetireOthers("generate-music")
    /\ UNCHANGED <<dir, uuid, env>>

\* client.music.compose and the reading of its stream have ended
GenerateMusicCompose(outcome) ==
    /\ gm.pc = "compose"
    /\ IF outcome = "song"
       THEN LET beat == FileName("beat-", NextUuid("beat-"), ".mp3")
            IN  /\ HasUuid(1)
                /\ uuid' = [uuid EXCEPT !["beat-"] = @ + 1]
                /\ dir' = WriteFile(dir, beat, Data("beat", beat.n))
                /\ resp' = Send("generate-music",
                     JsonFile("Beat generated successfully", beat, FileUrl(beat)))
                /\ gm' = [gm EXCEPT !.pc = "done", !.beat = beat]
       ELSE /\ resp' = Send("generate-music", JsonError(500, <<"Failed to generate beat">>))
            /\ gm' = [gm EXCEPT !.pc = "done", !.fail = "compose"]
            /\ UNCHANGED <<dir, uuid>>
    /\ RetireOthers("generate-music")
    /\ UNCHANGED <<env>>

GenerateMusicRequest == \E description \in DescriptionInputs : GenerateMusicStart(description)
GenerateMusicResume == \E outcome \in {"song", "error"} : GenerateMusicCompose(outcome)

\* ---------------------------------------------------------------- mix

\* an error message is the sequence of its parts; a file path is written
\* as the prefix of its name
PathToken(name) == name.prefix

\* child_process.exec rejects with `Command failed: ${cmd}\n${stderr}`
ExecError(tool, paths, stderr) ==
    <<"Command failed:", tool>> \o [i \in 1..Len(paths) |-> PathToken(paths[i])] \o stderr

\* what the shell prints for a command it cannot find
ShellNotFound(tool) == <<"/bin/sh:", tool, "not found">>

\* String.prototype.includes, on the parts of a message
Includes(message, needle) == \E i \in 1..Len(message) : message[i] = needle

FfmpegNotFound == <<"ffmpeg not found. Please install ffmpeg to mix audio.">>

\* the catch of the route
MixCatch(message) ==
    IF Includes(message, "ffmpeg")
    THEN JsonError(500, FfmpegNotFound)
    ELSE ErrorMiddleware(message)

\* the names a client may send: none, one that was never issued, or one a
\* response has told it (the names of intermediate files are never sent)
MixNames ==
    {NoName, FileName("vocals-", 0, ".mp3")}
    \cup {e.name : e \in {f \in dir : f.name.prefix \in {"", "vocals-", "beat-", "mixed-"}}}

\* checks that leave out the existence check of the vocal file
MixValidateBeatOnly(d, beatFilename, vocalFilename) ==
    IF beatFilename = NoName \/ vocalFilename = NoName THEN "no-names"
    ELSE IF ~Exists(d, beatFilename) THEN "no-beat"
    ELSE "ok"

\* the checks of POST /mix ahead of the first CLI call: the response they
\* end the request with, or "ok"
MixValidate(d, beatFilename, vocalFilename) ==
    IF beatFilename = NoName \/ vocalFilename = NoName THEN "no-names"
    ELSE IF ~Exists(d, beatFilename) THEN "no-beat"
    ELSE IF ~Exists(d, vocalFilename) THEN "no-vocal"
    ELSE "ok"

MixRefuse(verdict) ==
    CASE verdict = "no-names" ->
           JsonError(400, <<"beatFilename and vocalFilename are required">>)
      [] verdict = "no-beat" -> JsonError(404, <<"Beat file not found">>)
      [] verdict = "no-vocal" -> JsonError(404, <<"Vocal file not found">>)

\* POST /mix up to the await of ffprobe
MixStart(beatFilename, vocalFilename) ==
    /\ Free(mx)
    /\ LET verdict == MixValidate(dir, beatFilename, vocalFilename)
       IN  IF verdict # "ok"
           THEN /\ mx' = [MxIdle EXCEPT !.pc = "done", !.beat = beatFilename,
                                        !.vocal = vocalFilename, !.fail = verdict]
                /\ resp' = SendFirst("mix", MixRefuse(verdict))
                /\ UNCHANGED uuid
           ELSE /\ HasUuid(1)
                /\ uuid' = [uuid EXCEPT !["mixed-"] = @ + 1]
                /\ mx' = [MxIdle EXCEPT !.pc = "ffprobe", !.beat = beatFilename,
                                        !.vocal = vocalFilename,
                                        !.mixed = FileName("mixed-", NextUuid("mixed-"), ".mp3"),
                                        !.calls = <<"ffprobe">>]
                /\ resp' = Begin("mix")
    /\ RetireOthers("mix")
    /\ UNCHANGED <<dir, env>>

\* tools that never miss an input file
ToolStderrInstalled(tool, inputs) ==
    IF tool \notin env.installed THEN ShellNotFound(tool) ELSE <<>>

\* what ffprobe or ffmpeg writes to stderr when it cannot do its work, <<>> when it can
ToolStderr(tool, inputs) ==
    IF tool \notin env.installed THEN ShellNotFound(tool)
    ELSE IF \E i \in 1..Len(inputs) : ~Exists(dir, inputs[i])
    THEN <<"No such file or directory">>
    ELSE <<>>

\* a rejection of execAsync that no catch answers
MixFailUncaught(tool, inputs, stderr) ==
    /\ resp' = Silent
    /\ mx' = [mx EXCEPT !.pc = "rejected"]
    /\ UNCHANGED dir

MixFail(tool, inputs, stderr) ==
    /\ resp' = Send("mix", MixCatch(ExecError(tool, inputs, stderr)))
    /\ mx' = [mx EXCEPT !.pc = "done",
                        !.fail = IF tool \in env.installed THEN tool \o "-failed"
                                 ELSE tool \o "-missing"]
    /\ UNCHANGED dir

\* ffprobe has ended; a file that is there may still not be audio
MixProbe(readable) ==
    /\ mx.pc = "ffprobe"
    /\ LET stderr == ToolStderr("ffprobe", <<mx.vocal>>)
       IN  IF stderr = <<>> /\ readable
           THEN /\ mx' = [mx EXCEPT !.pc = "ffmpeg", !.calls = Append(@, "ffmpeg")]
                /\ resp' = Silent
                /\ UNCHANGED dir
           ELSE MixFail("ffprobe", <<mx.vocal>>,
                        IF stderr = <<>> THEN <<"Invalid data found when processing input">>
                        ELSE stderr)
    /\ RetireOthers("mix")
    /\ UNCHANGED <<uuid, env>>

\* ffmpeg has ended
MixFfmpeg(readable) ==
    /\ mx.pc = "ffmpeg"
    /\ LET stderr == ToolStderr("ffmpeg", <<mx.beat, mx.vocal>>)
       IN  IF stderr = <<>> /\ readable
           THEN /\ dir' = WriteFile(dir, mx.mixed, Data("mix", mx.mixed.n))
                /\ resp' = Send("mix",
                     JsonFile("Audio mixed successfully", mx.mixed, FileUrl(mx.mixed)))
                /\ mx' = [mx EXCEPT !.pc = "done"]
           ELSE MixFail("ffmpeg", <<mx.beat, mx.vocal>>,
                        IF stderr = <<>> THEN <<"Invalid data found when processing input">>
                        ELSE stderr)
    /\ RetireOthers("mix")
    /\ UNCHANGED <<uuid, env>>

MixRequest == \E beatFilename \in MixNames, vocalFilename \in MixNames :
                  MixStart(beatFilename, vocalFilename)
MixProbeResume == \E readable \in BOOLEAN : MixProbe(readable)
MixFfmpegResume == \E readable \in BOOLEAN : MixFfmpeg(readable)

\* ---------------------------------------------------------------- time

\* One tick of the clock ages every entry.  The hosted calls and the tar
\* run of generate-vocals end within the SDK's request timeout, far below
\* a tick, so no tick falls between the writing of the full song and the
\* response of that request.
Tick ==
    /\ gv.pc \notin {"separate", "untar"}
    /\ \E e \in dir : e.age < MaxAge
    /\ dir' = {[e EXCEPT !.age = IF @ < MaxAge THEN @ + 1 ELSE @] : e \in dir}
    /\ RetireOthers("none")
    /\ resp' = Silent
    /\ UNCHANGED <<uuid, env>>


\* =========================================================== Beat Studio

MIN_STEPS == 4
MAX_STEPS == 32
INITIAL_STEPS == 16

INSTRUMENTS == <<"kick", "snare", "hihat", "clap", "snap", "808", "tick", "cymbal">>

SYNTH_NOTES ==
    <<"C3", "D3", "E3", "F3", "G3", "A3", "B3", "C4", "D4", "E4", "F4", "G4",
      "A4", "B4", "C5", "D5", "E5">>

\* A JavaScript array is a sequence; the element of index i is At(a, i).
At(a, i) == a[i + 1]

\* Array(n).fill(false).map((_, i) => f(i))
ArrayOf(n, f) == [k \in 1..n |-> f[k - 1]]

\* array.includes(x)
ArrayIncludes(a, x) == \E k \in 1..Len(a) : a[k] = x

\* [...a, ...b]
Spread(a, b) == a \o b

\* -------------------------------------------------------- generateBeat

\* Each Math.random() of generateBeat is modelled by what its value is used
\* for: the index Math.floor(Math.random() * n) is any of 0 .. n-1, and a
\* test such as Math.random() > 0.7 is passed or not.  `lucky` is the set
\* of steps whose test was passed; a step evaluates at most one test.

bpmRanges == <<<<85, 95>>, <<100, 115>>, <<120, 135>>, <<140, 155>>>>

\* a tempo drawn from one step above the range
NewBpmOffByOne(range, offset) == offset + range[1] + 1

\* Math.floor(Math.random() * (range[1] - range[0] + 1)) + range[0]
NewBpm(range, offset) == offset + range[1]

\* setBpm(newBpm); setDrumSteps(steps); setMelodySteps(steps)
GenerateBpm ==
    /\ gen = [part |-> "none"]
    /\ \E r \in 1..Len(bpmRanges) :
          \E offset \in 0..(bpmRanges[r][2] - bpmRanges[r][1]) :
             gen' = [part |-> "bpm", bpm |-> NewBpm(bpmRanges[r], offset),
                     drumSteps |-> 16, melodySteps |-> 16]
    /\ UNCHANGED <<backend, page, wav, studio>>

\* grooveStyle < 0.33, < 0.66, otherwise
GrooveStyles == {"four-on-floor", "hip-hop", "broken"}

Kick(grooveStyle, lucky) ==
    LET f == [i \in 0..15 |->
          IF i = 0 THEN TRUE
          ELSE IF grooveStyle = "four-on-floor" THEN i % 4 = 0
          ELSE IF grooveStyle = "hip-hop"
          THEN (i = 8) \/ (i = 6 /\ i \in lucky) \/ (i = 14 /\ i \in lucky)
          ELSE IF i = 8 THEN i \in lucky
          ELSE (i = 3 /\ i \in lucky) \/ (i = 10 /\ i \in lucky)]
    IN  ArrayOf(16, f)

Snare(lucky) ==
    LET f == [i \in 0..15 |-> (i = 4 \/ i = 12) \/ ((i = 11 \/ i = 3) /\ i \in lucky)]
    IN  ArrayOf(16, f)

Hihat(hihatPattern, lucky) ==
    LET f == [i \in 0..15 |->
          IF hihatPattern = 0 THEN i % 2 = 0 \/ (i % 4 = 1 /\ i \in lucky)
          ELSE IF hihatPattern = 1 THEN i % 2 = 0 \/ (i % 2 = 1 /\ i \in lucky)
          ELSE i % 4 = 0 \/ (i % 4 = 2 /\ i \in lucky)]
    IN  ArrayOf(16, f)

Clap(lucky) ==
    LET f == [i \in 0..15 |-> (i = 4 \/ i = 12) /\ i \in lucky]
    IN  ArrayOf(16, f)

Snap(lucky) ==
    LET f == [i \in 0..15 |-> i \in {2, 6, 10, 14} /\ i \in lucky]
    IN  ArrayOf(16, f)

Bass808(grooveStyle, lucky) ==
    LET f == [i \in 0..15 |->
          IF grooveStyle = "four-on-floor" THEN i = 0 \/ (i = 8 /\ i \in lucky)
          ELSE IF grooveStyle = "hip-hop"
          THEN (i = 0) \/ (i = 6 /\ i \in lucky) \/ (i = 11 /\ i \in lucky)
          ELSE (i = 0 \/ i = 8) \/ (i \in {3, 7, 11, 15} /\ i \in lucky)]
    IN  ArrayOf(16, f)

TickLayer(lucky) ==
    LET f == [i \in 0..15 |->
          IF i % 4 = 0 THEN i \in lucky
          ELSE i % 2 = 0 /\ i \in lucky]
    IN  ArrayOf(16, f)

Cymbal(lucky) ==
    LET f == [i \in 0..15 |->
          IF i = 0 THEN i \in lucky
          ELSE i = 8 /\ i \in lucky]
    IN  ArrayOf(16, f)

\* the steps at which an instrument's code evaluates a Math.random() test
TestSteps(inst) ==
    CASE inst = "kick" -> {3, 6, 8, 10, 14}
      [] inst = "snare" -> {3, 11}
      [] inst = "hihat" -> {1, 2, 3, 5, 6, 7, 9, 10, 11, 13, 14, 15}
      [] inst = "clap" -> {4, 12}
      [] inst = "snap" -> {2, 6, 10, 14}
      [] inst = "808" -> {3, 6, 7, 8, 11, 15}
      [] inst = "tick" -> {0, 2, 4, 6, 8, 10, 12, 14}
      [] inst = "cymbal" -> {0, 8}

\* newDrumPattern[inst]
DrumArray(inst, grooveStyle, hihatPattern, lucky) ==
    CASE inst = "kick" -> Kick(grooveStyle, lucky)
      [] inst = "snare" -> Snare(lucky)
      [] inst = "hihat" -> Hihat(hihatPattern, lucky)
      [] inst = "clap" -> Clap(lucky)
      [] inst = "snap" -> Snap(lucky)
      [] inst = "808" -> Bass808(grooveStyle, lucky)
      [] inst = "tick" -> TickLayer(lucky)
      [] inst = "cymbal" -> Cymbal(lucky)

\* one of the eight drum arrays of a call, for every outcome of its draws
GenerateDrum ==
    /\ gen = [part |-> "none"]
    /\ \E k \in 1..Len(INSTRUMENTS), grooveStyle \in GrooveStyles,
          hihatPattern \in 0..2 :
          \E lucky \in SUBSET TestSteps(INSTRUMENTS[k]) :
             gen' = [part |-> "drum", inst |-> INSTRUMENTS[k],
                     array |-> DrumArray(INSTRUMENTS[k], grooveStyle,
                                         hihatPattern, lucky)]
    /\ UNCHANGED <<backend, page, wav, studio>>

scales ==
    [major |-> <<"C4", "D4", "E4", "G4", "A4", "C5">>,
     minor |-> <<"C4", "D4", "Eb4", "G4", "A4", "C5">>,
     dorian |-> <<"C4", "D4", "E4", "F4", "G4", "A4", "C5">>]

Min(a, b) == IF a < b THEN a ELSE b
Max(a, b) == IF a > b THEN a ELSE b

\* array.indexOf(x): the first index of x, -1 when absent
IndexOf(a, x) ==
    IF ArrayIncludes(a, x)
    THEN CHOOSE i \in 0..(Len(a) - 1) :
            At(a, i) = x /\ \A j \in 0..(i - 1) : At(a, j) # x
    ELSE -1

\* The draws of one step of generatePhrase: downbeat is Math.random() < 0.8,
\* idx the index drawn for a downbeat, rest is Math.random() >
\* adjustedDensity, movement the class of Math.random() against 0.4 and 0.8,
\* jump the index drawn for a jump, harmony is Math.random() > 0.85.
\* The indexes are taken inside every scale (idx in 1 .. length-2, jump in
\* 0 .. length-1).
DownbeatOrRest ==
    [downbeat |-> TRUE, idx |-> 2, rest |-> TRUE, movement |-> "up",
     jump |-> 0, harmony |-> FALSE]
StepUpWithHarmony ==
    [downbeat |-> FALSE, idx |-> 1, rest |-> FALSE, movement |-> "up",
     jump |-> 0, harmony |-> TRUE]
JumpToRoot ==
    [downbeat |-> FALSE, idx |-> 1, rest |-> FALSE, movement |-> "jump",
     jump |-> 0, harmony |-> FALSE]
StepDraws == {DownbeatOrRest, StepUpWithHarmony, JumpToRoot}

\* the callback of generatePhrase's map, for step i of the phrase
PhraseStep(scale, i, d) ==
    IF i = 0 /\ d.downbeat THEN <<At(scale, d.idx)>>
    ELSE IF d.rest THEN <<>>
    ELSE LET lastNote == IF i > 0 THEN At(scale, Len(scale) \div 2)
                         ELSE At(scale, 2)
             lastIndex == IndexOf(scale, lastNote)
             noteIndex ==
                 IF d.movement = "up" THEN Min(lastIndex + 1, Len(scale) - 1)
                 ELSE IF d.movement = "down" THEN Max(lastIndex - 1, 0)
                 ELSE d.jump
             notes == <<At(scale, noteIndex)>>
         IN  IF d.harmony
             THEN Append(notes, At(scale, Min(noteIndex + 2, Len(scale) - 1)))
             ELSE notes

\* every outcome of the draws of one step over a scale
StepDrawSpace(scale) ==
    [downbeat : BOOLEAN, idx : 1..(Len(scale) - 2), rest : BOOLEAN,
     movement : {"up", "down", "jump"}, jump : 0..(Len(scale) - 1),
     harmony : BOOLEAN]

\* one step of a phrase, for every outcome of its draws
GeneratePhraseStep ==
    /\ gen = [part |-> "none"]
    /\ \E scaleChoice \in DOMAIN scales, i \in 0..3 :
          \E d \in StepDrawSpace(scales[scaleChoice]) :
             gen' = [part |-> "step", i |-> i,
                     notes |-> PhraseStep(scales[scaleChoice], i, d)]
    /\ UNCHANGED <<backend, page, wav, studio>>

\* generatePhrase, with the draws of its four steps
GeneratePhrase(scale, draws) ==
    LET f == [i \in 0..3 |-> PhraseStep(scale, i, At(draws, i))]
    IN  ArrayOf(4, f)

\* [...phraseA, ...phraseA, ...phraseB, ...phraseA] or its ABAB order
NewMelodyPattern(phraseType, phraseA, phraseB) ==
    IF phraseType = "AABA"
    THEN Spread(Spread(phraseA, phraseA), Spread(phraseB, phraseA))
    ELSE Spread(Spread(phraseA, phraseB), Spread(phraseA, phraseB))

GenerateMelody ==
    /\ gen = [part |-> "none"]
    /\ \E scaleChoice \in DOMAIN scales, phraseType \in {"AABA", "ABAB"},
          drawsA \in [1..4 -> StepDraws], drawsB \in [1..4 -> StepDraws] :
          LET phraseA == GeneratePhrase(scales[scaleChoice], drawsA)
              phraseB == GeneratePhrase(scales[scaleChoice], drawsB)
          IN  gen' = [part |-> "melody", phraseType |-> phraseType,
                      phraseA |-> phraseA, phraseB |-> phraseB,
                      melody |-> NewMelodyPattern(phraseType, phraseA, phraseB)]
    /\ UNCHANGED <<backend, page, wav, studio>>

\* ------------------------------------------------- the component state

\* React applies the updaters queued by a handler, in their order, at the
\* next render, and the effect of lines 161-166 then copies the patterns
\* into the cached refs: a handler, the render and the effects that follow
\* it are one step, and the cached refs are the patterns of the state.
\* What stays pending between steps is what the code defers itself: the
\* animation-frame callbacks and the batched updates.

\* the most deferred work that waits at once: animation-frame callbacks
\* and batched updates together
MaxPending == 2

\* how far the column buttons are followed from the initial 16 columns:
\* the step counts and the lengths of the arrays stay this close to 16
MaxColumnDrift == 1

\* the most callbacks that wait for the frame when a column button is
\* clicked, and the most updates that wait for the timeout when a cell is
\* pressed again
MaxColumnClicks == 1
MaxPresses == 2

InstrumentNames == {INSTRUMENTS[k] : k \in 1..Len(INSTRUMENTS)}

\* parseInt of a missing attribute
NaN == 0 - 1

\* the cells the pointer is pressed on and moved over
DrumCells == {[grid |-> "drum", row |-> 0, step |-> st] : st \in {0, 1}}
MelodyCells == {[grid |-> "melody", row |-> 7, step |-> st] : st \in {0, 1}}

\* document.elementFromPoint: a cell, an element that is no cell, or null
NoElement == [grid |-> "null", row |-> NaN, step |-> NaN]
OtherElement == [grid |-> "other", row |-> NaN, step |-> NaN]
Elements == DrumCells \cup MelodyCells \cup {NoElement, OtherElement}

\* lastDragCellRef.current: null, or the key of a cell
NoCell == [grid |-> "none", row |-> NaN, step |-> NaN]
UndefinedCell == [grid |-> "melody", row |-> NaN, step |-> NaN]

\* no gesture: no listener on the document
DragIdle ==
    [isDragging |-> FALSE, listener |-> "none", lastDragCell |-> NoCell,
     setValue |-> FALSE]

\* a[i] is not undefined
Defined(a, i) == i \in 0..(Len(a) - 1)

\* Array(n).fill(null).map(() => [])
EmptyMelody(n) == [k \in 1..n |-> <<>>]

\* pattern[inst] = Array(n).fill(false) for every instrument
EmptyDrums(n) == [inst \in InstrumentNames |-> [k \in 1..n |-> FALSE]]

\* array.slice(0, -1)
SliceLast(a) == IF a = <<>> THEN a ELSE SubSeq(a, 1, Len(a) - 1)

\* array.splice(idx, 1)
SpliceOne(a, idx) ==
    [k \in 1..(Len(a) - 1) |-> IF k <= idx THEN a[k] ELSE a[k + 1]]

\* newPattern[step] = value on a copy of the array; a write past the end
\* lengthens the array and leaves holes, which read as false
AssignAt(a, i, value) ==
    [k \in 1..Max(Len(a), i + 1) |->
        IF k = i + 1 THEN value ELSE IF k <= Len(a) THEN a[k] ELSE FALSE]

\* the updater of setDrumPattern in setDrumStep
DrumUpdater(prev, instrument, step, value) ==
    IF Defined(prev[instrument], step) /\ At(prev[instrument], step) = value
    THEN prev
    ELSE [prev EXCEPT ![instrument] = AssignAt(prev[instrument], step, value)]

\* prev[step].slice() throws when prev[step] is undefined
UpdaterThrows(prev, step) == ~Defined(prev, step)

\* the updater of setMelodyPattern in setMelodyNote
MelodyUpdater(prev, note, step, shouldAdd) ==
    LET noteArray == At(prev, step)
        idx == IndexOf(noteArray, note)
    IN  IF (shouldAdd /\ idx # -1) \/ (~shouldAdd /\ idx = -1) THEN prev
        ELSE [prev EXCEPT ![step + 1] =
                 IF shouldAdd THEN Append(noteArray, note)
                 ELSE SpliceOne(noteArray, idx)]

\* the updater of setMergePattern in setMelodyNote
MergeUpdater(prev, note, step, shouldAdd, currentMergeMode) ==
    LET noteArray == At(prev, step)
        idx == IndexOf(noteArray, note)
    IN  IF currentMergeMode
        THEN MelodyUpdater(prev, note, step, shouldAdd)
        ELSE IF ~shouldAdd /\ idx # -1
             THEN [prev EXCEPT ![step + 1] = SpliceOne(noteArray, idx)]
             ELSE prev

\* SYNTH_NOTES[noteIndex]
NoteOf(noteIndex) ==
    IF Defined(SYNTH_NOTES, noteIndex) THEN At(SYNTH_NOTES, noteIndex)
    ELSE Undefined

\* The part of the state the deferred callbacks and updates work on.
Grid ==
    [drumSteps |-> drumSteps, melodySteps |-> melodySteps,
     drumPattern |-> drumPattern, melodyPattern |-> melodyPattern,
     mergePattern |-> mergePattern, batchedUpdates |-> batchedUpdates,
     mounted |-> mounted]

\* one update of the batch: the function given to batchStateUpdate
RunUpdate(g, u) ==
    IF ~g.mounted THEN g
    ELSE IF u.op = "setDrumStep"
    THEN [g EXCEPT !.drumPattern =
             DrumUpdater(g.drumPattern, At(INSTRUMENTS, u.row), u.step, u.value)]
    ELSE IF UpdaterThrows(g.melodyPattern, u.step)
            \/ UpdaterThrows(g.mergePattern, u.step)
    THEN [g EXCEPT !.mounted = FALSE]
    ELSE [g EXCEPT
            !.melodyPattern =
                MelodyUpdater(g.melodyPattern, NoteOf(u.row), u.step, u.value),
            !.mergePattern =
                MergeUpdater(g.mergePattern, NoteOf(u.row), u.step, u.value,
                             u.currentMergeMode)]

\* updates.forEach(fn => fn())
RECURSIVE RunUpdates(_, _)
RunUpdates(g, updates) ==
    IF updates = <<>> THEN g
    ELSE RunUpdates(RunUpdate(g, Head(updates)), Tail(updates))

\* batchStateUpdate(updateFn): the update joins the batch
BatchStateUpdate(g, u) ==
    [g EXCEPT !.batchedUpdates = Append(g.batchedUpdates, u)]

\* one animation-frame callback
RunCallback(g, cb) ==
    IF cb.op = "addDrumColumn"
    THEN [g EXCEPT !.drumSteps = g.drumSteps + 1,
                   !.drumPattern = [inst \in InstrumentNames |->
                                       Append(g.drumPattern[inst], FALSE)]]
    ELSE IF cb.op = "removeDrumColumn"
    THEN [g EXCEPT !.drumSteps = g.drumSteps - 1,
                   !.drumPattern = [inst \in InstrumentNames |->
                                       SliceLast(g.drumPattern[inst])]]
    ELSE IF cb.op = "addMelodyColumn"
    THEN [g EXCEPT !.melodySteps = g.melodySteps + 1,
                   !.melodyPattern = Append(g.melodyPattern, <<>>),
                   !.mergePattern = Append(g.mergePattern, <<>>)]
    ELSE IF cb.op = "removeMelodyColumn"
    THEN [g EXCEPT !.melodySteps = g.melodySteps - 1,
                   !.melodyPattern = SliceLast(g.melodyPattern),
                   !.mergePattern = SliceLast(g.mergePattern)]
    ELSE IF cb.op = "setDrumStep"
    THEN BatchStateUpdate(g, cb)
    ELSE BatchStateUpdate(g, [op |-> "setMelodyNote", row |-> cb.row,
                              step |-> cb.step, value |-> cb.value,
                              currentMergeMode |-> isMergeMode])

\* callbacks.forEach(cb => cb())
RECURSIVE RunCallbacks(_, _)
RunCallbacks(g, callbacks) ==
    IF callbacks = <<>> THEN g
    ELSE RunCallbacks(RunCallback(g, Head(callbacks)), Tail(callbacks))

\* the state after the deferred work has run
SetGrid(g) ==
    /\ drumSteps' = g.drumSteps
    /\ melodySteps' = g.melodySteps
    /\ drumPattern' = g.drumPattern
    /\ melodyPattern' = g.melodyPattern
    /\ mergePattern' = g.mergePattern
    /\ batchedUpdates' = g.batchedUpdates
    /\ mounted' = g.mounted

\* the callback of requestAnimationFrame in scheduleRAF
AnimationFrame ==
    /\ mounted
    /\ rafCallbacks # <<>>
    /\ rafCallbacks' = <<>>
    /\ SetGrid(RunCallbacks(Grid, rafCallbacks))
    /\ UNCHANGED <<backend, page, gen, wav, playback, bpm, isMergeMode, drag>>

\* the callback of setTimeout in batchStateUpdate
BatchTimeout ==
    /\ mounted
    /\ batchedUpdates # <<>>
    /\ SetGrid(RunUpdates([Grid EXCEPT !.batchedUpdates = <<>>], batchedUpdates))
    /\ UNCHANGED <<backend, page, gen, wav, playback, bpm, isMergeMode, rafCallbacks, drag>>

\* more work can be deferred within the bound
MayDefer == Len(rafCallbacks) + Len(batchedUpdates) < MaxPending

\* scheduleRAF(callback)
ScheduleRAF(cb) ==
    /\ MayDefer
    /\ rafCallbacks' = Append(rafCallbacks, cb)

\* the four column buttons; a button is disabled at its limit and its
\* handler returns there
ColumnButton(op) ==
    /\ mounted
    /\ Len(rafCallbacks) < MaxColumnClicks
    /\ CASE op = "addDrumColumn" ->
                drumSteps < MAX_STEPS /\ drumSteps < INITIAL_STEPS + MaxColumnDrift
         [] op = "removeDrumColumn" ->
                drumSteps > MIN_STEPS /\ drumSteps > INITIAL_STEPS - MaxColumnDrift
         [] op = "addMelodyColumn" ->
                /\ melodySteps < MAX_STEPS
                /\ melodySteps < INITIAL_STEPS + MaxColumnDrift
                /\ Len(mergePattern) < INITIAL_STEPS + MaxColumnDrift
         [] op = "removeMelodyColumn" ->
                /\ melodySteps > MIN_STEPS
                /\ melodySteps > INITIAL_STEPS - MaxColumnDrift
                /\ Len(mergePattern) > INITIAL_STEPS - MaxColumnDrift
    /\ ScheduleRAF([op |-> op])
    /\ UNCHANGED <<backend, page, gen, wav, playback, grid, isMergeMode, batchedUpdates, drag,
                   mounted>>

\* a click on one of the column buttons, at any distance from the initial
\* grid: the handler returns at its limit and otherwise defers its update
ColumnClick ==
    /\ mounted
    /\ \E op \in {"addDrumColumn", "removeDrumColumn",
                   "addMelodyColumn", "removeMelodyColumn"} :
          /\ CASE op = "addDrumColumn" -> ~(drumSteps >= MAX_STEPS)
               [] op = "removeDrumColumn" -> ~(drumSteps <= MIN_STEPS)
               [] op = "addMelodyColumn" -> ~(melodySteps >= MAX_STEPS)
               [] op = "removeMelodyColumn" -> ~(melodySteps <= MIN_STEPS)
          /\ ScheduleRAF([op |-> op])
    /\ UNCHANGED <<backend, page, gen, wav, playback, grid, isMergeMode,
                   batchedUpdates, drag, mounted>>

AddDrumColumn == ColumnButton("addDrumColumn")
RemoveDrumColumn == ColumnButton("removeDrumColumn")
AddMelodyColumn == ColumnButton("addMelodyColumn")
RemoveMelodyColumn == ColumnButton("removeMelodyColumn")

\* onClick={() => setIsMergeMode(!isMergeMode)}
ToggleMergeMode ==
    /\ mounted
    /\ isMergeMode' = ~isMergeMode
    /\ UNCHANGED <<backend, page, gen, wav, playback, grid, rafCallbacks, batchedUpdates, drag,
                   mounted>>

ClearAll ==
    /\ mounted
    /\ drumPattern' = EmptyDrums(drumSteps)
    /\ melodyPattern' = EmptyMelody(melodySteps)
    /\ mergePattern' = EmptyMelody(melodySteps)
    /\ UNCHANGED <<backend, page, gen, wav, playback, drumSteps, melodySteps, bpm, editing>>

\* the listeners handleDrumMouseDown and handleMelodyMouseDown register
\* compare the key of the cell under the pointer with lastDragCellRef
SameDragCellNever(lastDragCell, key) == FALSE

SameDragCell(lastDragCell, key) == lastDragCell = key

\* A gesture is a press, moves and a release: a press starts no second
\* gesture before the release of the first.
HandleDrumMouseDown ==
    /\ mounted
    /\ ~drag.isDragging
    /\ MayDefer
    /\ Len(batchedUpdates) < MaxPresses
    /\ \E cell \in DrumCells :
          LET instrument == At(INSTRUMENTS, cell.row)
              setValue == ~At(drumPattern[instrument], cell.step)
          IN  /\ cell.step < drumSteps
              /\ drag' = [isDragging |-> TRUE, listener |-> "drum",
                          lastDragCell |-> cell, setValue |-> setValue]
              /\ batchedUpdates' =
                    Append(batchedUpdates,
                           [op |-> "setDrumStep", row |-> cell.row,
                            step |-> cell.step, value |-> setValue])
    /\ UNCHANGED <<backend, page, gen, wav, playback, grid, isMergeMode, rafCallbacks, mounted>>

HandleMelodyMouseDown ==
    /\ mounted
    /\ ~drag.isDragging
    /\ MayDefer
    /\ Len(batchedUpdates) < MaxPresses
    /\ \E cell \in MelodyCells :
          LET note == NoteOf(cell.row)
              shouldAdd == ~ArrayIncludes(At(melodyPattern, cell.step), note)
          IN  /\ cell.step < melodySteps
              /\ drag' = [isDragging |-> TRUE, listener |-> "melody",
                          lastDragCell |-> cell, setValue |-> shouldAdd]
              /\ batchedUpdates' =
                    Append(batchedUpdates,
                           [op |-> "setMelodyNote", row |-> cell.row,
                            step |-> cell.step, value |-> shouldAdd,
                            currentMergeMode |-> isMergeMode])
    /\ UNCHANGED <<backend, page, gen, wav, playback, grid, isMergeMode, rafCallbacks, mounted>>

\* the key a listener reads from the element under the pointer, NoCell when
\* the listener ignores the element
DragKey(listener, element) ==
    IF listener = "drum"
    THEN IF element.grid = "drum" THEN element ELSE NoCell
    ELSE IF element.grid = "melody" THEN element
    ELSE IF element = NoElement THEN UndefinedCell
    ELSE NoCell

\* A pointermove over `element`: the document calls the handlePointerMove
\* that is registered, if any; the throttle drops the event when the last
\* one it let through is less than 16ms old, and the handler returns when
\* isDraggingRef is false.
PointerMoveOver(element) ==
    /\ mounted
    /\ \E throttled \in BOOLEAN :
          LET key == DragKey(drag.listener, element)
          IN  IF \/ drag.listener = "none"
                 \/ throttled
                 \/ ~drag.isDragging
                 \/ key = NoCell
                 \/ SameDragCell(drag.lastDragCell, key)
              THEN UNCHANGED <<drag, rafCallbacks>>
              ELSE /\ drag' = [drag EXCEPT !.lastDragCell = key]
                   /\ ScheduleRAF([op |-> IF drag.listener = "drum"
                                          THEN "setDrumStep" ELSE "setMelodyNote",
                                   row |-> key.row, step |-> key.step,
                                   value |-> drag.setValue])
    /\ UNCHANGED <<backend, page, gen, wav, playback, grid, isMergeMode, batchedUpdates, mounted>>

PointerMove == \E element \in Elements : PointerMoveOver(element)

\* handlePointerUp: the listeners leave the document
PointerUp ==
    /\ mounted
    /\ drag.isDragging
    /\ drag' = DragIdle
    /\ UNCHANGED <<backend, page, gen, wav, playback, grid, isMergeMode, rafCallbacks,
                   batchedUpdates, mounted>>

\* The draws of the calls of generateBeat that the component is followed
\* through: a sparse beat whose melody has no C4 on its first steps, and a
\* busy one whose melody starts on C4.
BeatDraws ==
    { [range |-> 1, offset |-> 0, grooveStyle |-> "four-on-floor",
       hihatPattern |-> 0, lucky |-> {}, scaleChoice |-> "major",
       phraseType |-> "AABA",
       drawsA |-> <<DownbeatOrRest, DownbeatOrRest, DownbeatOrRest, DownbeatOrRest>>,
       drawsB |-> <<JumpToRoot, JumpToRoot, JumpToRoot, JumpToRoot>>],
      [range |-> 4, offset |-> 15, grooveStyle |-> "broken",
       hihatPattern |-> 2, lucky |-> 0..15, scaleChoice |-> "minor",
       phraseType |-> "ABAB",
       drawsA |-> <<JumpToRoot, JumpToRoot, StepUpWithHarmony, DownbeatOrRest>>,
       drawsB |-> <<DownbeatOrRest, StepUpWithHarmony, JumpToRoot, JumpToRoot>>] }

\* generateBeat sets the tempo, both step counts, the drum pattern and the
\* melody pattern, and nothing else
GenerateBeat ==
    /\ mounted
    /\ \E d \in BeatDraws :
          /\ bpm' = NewBpm(bpmRanges[d.range], d.offset)
          /\ drumSteps' = 16
          /\ melodySteps' = 16
          /\ drumPattern' =
                [inst \in InstrumentNames |->
                    DrumArray(inst, d.grooveStyle, d.hihatPattern,
                              d.lucky \cap TestSteps(inst))]
          /\ melodyPattern' =
                NewMelodyPattern(d.phraseType,
                                 GeneratePhrase(scales[d.scaleChoice], d.drawsA),
                                 GeneratePhrase(scales[d.scaleChoice], d.drawsB))
    /\ UNCHANGED <<backend, page, gen, wav, playback, mergePattern, editing>>

\* ------------------------------------------------ playback and export

\* mergePattern[step] && mergePattern[step].includes(note)
MarkedMerged(mergePat, step, note) ==
    Defined(mergePat, step) /\ ArrayIncludes(At(mergePat, step), note)

\* isPreviousStepMerge
IsPreviousStepMerge(mergePat, step, note) ==
    step > 0 /\ MarkedMerged(mergePat, step - 1, note)

\* let duration = 1; for (let i = step + 1; i < melodySteps; i++) ...
RECURSIVE CountRun(_, _, _, _, _)
CountRun(mergePat, steps, note, i, duration) ==
    IF i < steps /\ MarkedMerged(mergePat, i, note)
    THEN CountRun(mergePat, steps, note, i + 1, duration + 1)
    ELSE duration

\* the notes of an array
NotesOf(a) == {a[k] : k \in 1..Len(a)}

\* mergeNoteDurations: the object of the durations, as the set of its
\* entries <<step, note, duration>> (the key is `${step}-${note}`)
MergeNoteDurations ==
    {<<c[1], c[2], CountRun(mergePattern, melodySteps, c[2], c[1] + 1, 1)>> :
        c \in {c \in (0..(melodySteps - 1)) \X
                     UNION {NotesOf(mergePattern[k]) : k \in 1..Len(mergePattern)} :
                  /\ MarkedMerged(mergePattern, c[1], c[2])
                  /\ ~IsPreviousStepMerge(mergePattern, c[1], c[2])}}

\* An event is an instrument started, or a note attacked for `duration`
\* sixteenths, at a step.
DrumEvent(inst, step) ==
    [kind |-> "drum", name |-> inst, step |-> step, duration |-> 0]
NoteEvent(note, step, duration) ==
    [kind |-> "note", name |-> note, step |-> step, duration |-> duration]

\* drumPat[inst][step] is truthy
DrumHit(inst, step) ==
    Defined(drumPattern[inst], step) /\ At(drumPattern[inst], step)

\* what the callback of the Tone.Sequence does for one note of a step: the
\* duration it reads from cachedMergeDurationsRef is undefined unless a run
\* starts at the step
SequenceNoteEvents(step, note) ==
    IF MarkedMerged(mergePattern, step, note)
    THEN {NoteEvent(note, step, e[3]) :
             e \in {d \in MergeNoteDurations : d[1] = step /\ d[2] = note}}
    ELSE {NoteEvent(note, step, 1)}

\* one pass of the sequence over [...Array(maxSteps).keys()]; the callback
\* reads notes.length and so throws on a step without its array
SequenceEvents ==
    LET maxSteps == Max(drumSteps, melodySteps)
    IN  UNION {
          {DrumEvent(inst, step) : inst \in {i \in InstrumentNames :
                                       step < drumSteps /\ DrumHit(i, step)}}
          \cup
          (IF step < melodySteps
           THEN IF Defined(melodyPattern, step)
                THEN UNION {SequenceNoteEvents(step, note) :
                               note \in NotesOf(At(melodyPattern, step))}
                ELSE {[kind |-> "TypeError", name |-> "notes.length",
                       step |-> step, duration |-> 0]}
           ELSE {}) : step \in 0..(maxSteps - 1)}

\* an export that attacks a merged note at every step of its run
ExportNoteEventsEveryStep(step, note) ==
    IF MarkedMerged(mergePattern, step, note)
    THEN {NoteEvent(note, step,
                    CountRun(mergePattern, melodySteps, note, step + 1, 1))}
    ELSE {NoteEvent(note, step, 1)}

\* what exportBeat schedules for one note of a step
ExportNoteEvents(step, note) ==
    IF MarkedMerged(mergePattern, step, note)
    THEN IF ~IsPreviousStepMerge(mergePattern, step, note)
         THEN {NoteEvent(note, step,
                         CountRun(mergePattern, melodySteps, note, step + 1, 1))}
         ELSE {}
    ELSE {NoteEvent(note, step, 1)}

\* the loop of exportBeat over the steps 0 .. maxSteps - 1
ExportEvents ==
    LET maxSteps == Max(drumSteps, melodySteps)
    IN  UNION {
          {DrumEvent(inst, step) : inst \in {i \in InstrumentNames :
                                       step < drumSteps /\ DrumHit(i, step)}}
          \cup
          (IF step < melodySteps /\ Defined(melodyPattern, step)
           THEN UNION {ExportNoteEvents(step, note) :
                          note \in NotesOf(At(melodyPattern, step))}
           ELSE {}) : step \in 0..(maxSteps - 1)}

\* ------------------------------------------------------- the transport

\* the most calls of togglePlay and exportBeat that wait at once
MaxCalls == 3

\* array without its element of index k (from 1)
Without(a, k) == [j \in 1..(Len(a) - 1) |-> IF j < k THEN a[j] ELSE a[j + 1]]

\* a toggle that negates the state of the render that applies it
NegateCurrent(closureIsPlaying, currentIsPlaying) == ~currentIsPlaying

\* setIsPlaying(!isPlaying): the value is computed from the isPlaying of
\* the render the handler was created in
NegateClosure(closureIsPlaying, currentIsPlaying) == ~closureIsPlaying

\* A click on the play button: togglePlay runs up to `await initAudio()`
\* with the isPlaying and the audioReady of the current render.
TogglePlay ==
    /\ Len(calls) < MaxCalls
    /\ calls' = Append(calls, [fn |-> "togglePlay", pc |-> "initAudio",
                               isPlaying |-> isPlaying,
                               audioReady |-> audioReady])
    /\ UNCHANGED <<backend, page, gen, wav, grid, editing, isPlaying, audioReady,
                   isExporting, transport>>

\* initAudio has resolved: it set audioReady unless its closure had it set
\* already; togglePlay commands the transport and sets isPlaying.  When
\* initAudio rejects (the audio context or a sample fails), togglePlay ends
\* there.
TogglePlayResume ==
    \E k \in 1..Len(calls), rejected \in BOOLEAN :
        /\ calls[k].fn = "togglePlay"
        /\ calls' = Without(calls, k)
        /\ IF rejected /\ ~calls[k].audioReady
           THEN UNCHANGED <<isPlaying, audioReady, transport>>
           ELSE /\ audioReady' = TRUE
                /\ transport' = IF calls[k].isPlaying THEN "stopped" ELSE "started"
                /\ isPlaying' = NegateClosure(calls[k].isPlaying, isPlaying)
        /\ UNCHANGED <<backend, page, gen, wav, grid, editing, isExporting>>

\* a click on the stop button
StopPlayback ==
    /\ transport' = "stopped"
    /\ isPlaying' = FALSE
    /\ UNCHANGED <<backend, page, gen, wav, grid, editing, audioReady, isExporting,
                   calls>>

\* A click on the export button: exportBeat returns when isExporting is
\* set, and otherwise runs up to `await initAudio()`.
ExportBeat ==
    /\ Len(calls) < MaxCalls
    /\ ~isExporting
    /\ calls' = Append(calls, [fn |-> "exportBeat", pc |-> "initAudio",
                               isPlaying |-> isPlaying,
                               audioReady |-> audioReady])
    /\ UNCHANGED <<backend, page, gen, wav, grid, editing, isPlaying, audioReady,
                   isExporting, transport>>

\* initAudio has resolved in exportBeat: setIsExporting(true), stopPlayback()
\* and the offline render starts; exportBeat ends when initAudio rejects.
ExportBeatRender ==
    \E k \in 1..Len(calls), rejected \in BOOLEAN :
        /\ calls[k].fn = "exportBeat"
        /\ calls[k].pc = "initAudio"
        /\ IF rejected /\ ~calls[k].audioReady
           THEN /\ calls' = Without(calls, k)
                /\ UNCHANGED <<isPlaying, audioReady, isExporting, transport>>
           ELSE /\ calls' = [calls EXCEPT ![k].pc = "render"]
                /\ audioReady' = TRUE
                /\ isExporting' = TRUE
                /\ transport' = "stopped"
                /\ isPlaying' = FALSE
        /\ UNCHANGED <<backend, page, gen, wav, grid, editing>>

\* the render and the upload have ended, with or without an error: the
\* finally block runs setIsExporting(false)
ExportBeatFinally ==
    \E k \in 1..Len(calls) :
        /\ calls[k].fn = "exportBeat"
        /\ calls[k].pc = "render"
        /\ calls' = Without(calls, k)
        /\ isExporting' = FALSE
        /\ UNCHANGED <<backend, page, gen, wav, grid, editing, isPlaying, audioReady,
                       transport>>

\* -------------------------------------------------- the sequence effect

\* the dependency array of the sequence effect; secondsPerSixteenth is a
\* function of bpm and updateCurrentStepVisual never changes
SequenceDeps == <<audioReady, drumSteps, melodySteps, isPlaying, bpm>>

\* the values the slider of the tempo is set to
BpmInputs == {60, 120, 180}

\* a cleanup that clears sequenceRef and leaves the sequence undisposed
DisposeForgotten(s) ==
    IF s.ref THEN [s EXCEPT !.ref = FALSE, !.started = FALSE] ELSE s

\* if (sequenceRef.current) { sequenceRef.current.dispose();
\*                            sequenceRef.current = null; }
Dispose(s) ==
    IF s.ref
    THEN [s EXCEPT !.undisposed = @ - 1, !.ref = FALSE, !.started = FALSE]
    ELSE s

\* the function the effect returned on its last run, when it returned one
Cleanup(s) == IF s.cleanup THEN Dispose(s) ELSE s

\* the body of the effect, with the audioReady and the isPlaying of the
\* render it runs for: new Tone.Sequence(...), started when isPlaying
EffectBody(s, ready, playing) ==
    IF ~ready
    THEN [s EXCEPT !.cleanup = FALSE]
    ELSE [Dispose(s) EXCEPT !.undisposed = @ + 1, !.ref = TRUE,
                            !.started = playing, !.cleanup = TRUE]

\* React runs the effect after a render whose dependencies differ from
\* those of the effect's last run: the cleanup of the last run, then the
\* body.  Updates that were batched into one render run it once.
SequenceEffect ==
    /\ mounted
    /\ sequence.deps # SequenceDeps
    /\ sequence' = [EffectBody(Cleanup(sequence), audioReady, isPlaying)
                       EXCEPT !.deps = SequenceDeps]
    /\ UNCHANGED <<backend, gen, wav, studio, app, fetches, served>>

\* The parent stops rendering the Beat Studio: React runs the cleanup of
\* the effect's last run.  Effects that were pending are not run.
Unmount ==
    /\ mounted
    /\ mounted' = FALSE
    /\ sequence' = Cleanup(sequence)
    /\ UNCHANGED <<backend, gen, wav, grid, playback, isMergeMode,
                   rafCallbacks, batchedUpdates, drag, app, fetches, served>>

\* onChange of the tempo slider: setBpm(Number(e.target.value))
SetBpm ==
    /\ mounted
    /\ \E value \in BpmInputs : bpm' = value
    /\ UNCHANGED <<backend, page, gen, wav, editing, playback, drumSteps,
                   melodySteps, drumPattern, melodyPattern, mergePattern>>

\* --------------------------------------------------------- bufferToWav

\* The rendered buffer is as long as the exported pattern lasts: at most
\* MaxQuarterSeconds quarters of a second of audio.
MaxQuarterSeconds == 12

\* audioBuffer.numberOfChannels and audioBuffer.sampleRate
ChannelCounts == {1, 2}
SampleRates == {8000, 22050, 44100, 48000, 96000}

\* the character codes of the four chunk tags
TagRIFF == <<82, 73, 70, 70>>
TagWAVE == <<87, 65, 86, 69>>
TagFmt == <<102, 109, 116, 32>>
TagData == <<100, 97, 116, 97>>

\* Byte k of a value, byte 0 the least significant.  The low four (two)
\* bytes of a value are the bytes of the value modulo 2^32 (2^16): writing
\* them is the wrap-around of setUint32 (setUint16).
ByteOf(value, k) == (value \div (256 ^ k)) % 256

\* view.setUint8(offset + i, str.charCodeAt(i)) for every i
WriteString(view, offset, str) ==
    [b \in DOMAIN view |->
        IF b \in offset..(offset + Len(str) - 1) THEN At(str, b - offset)
        ELSE view[b]]

\* a 32-bit write with the most significant byte first
SetUint32BigEndian(view, offset, value, littleEndian) ==
    [b \in DOMAIN view |->
        IF b \in offset..(offset + 3)
        THEN ByteOf(value, 3 - (b - offset))
        ELSE view[b]]

\* DataView.setUint32(offset, value, littleEndian)
SetUint32(view, offset, value, littleEndian) ==
    [b \in DOMAIN view |->
        IF b \in offset..(offset + 3)
        THEN ByteOf(value,
                    IF littleEndian THEN b - offset ELSE 3 - (b - offset))
        ELSE view[b]]

\* DataView.setUint16(offset, value, littleEndian)
SetUint16(view, offset, value, littleEndian) ==
    [b \in DOMAIN view |->
        IF b \in offset..(offset + 1)
        THEN ByteOf(value,
                    IF littleEndian THEN b - offset ELSE 1 - (b - offset))
        ELSE view[b]]

\* The header bufferToWav writes into the first 44 bytes of a zeroed
\* ArrayBuffer, write by write.
WavHeader(numChannels, sampleRate, samples) ==
    LET format == 1
        bitDepth == 16
        bytesPerSample == bitDepth \div 8
        blockAlign == numChannels * bytesPerSample
        dataSize == samples * blockAlign
        v0 == [b \in 0..43 |-> 0]
        v1 == WriteString(v0, 0, TagRIFF)
        v2 == SetUint32(v1, 4, 36 + dataSize, TRUE)
        v3 == WriteString(v2, 8, TagWAVE)
        v4 == WriteString(v3, 12, TagFmt)
        v5 == SetUint32(v4, 16, 16, TRUE)
        v6 == SetUint16(v5, 20, format, TRUE)
        v7 == SetUint16(v6, 22, numChannels, TRUE)
        v8 == SetUint32(v7, 24, sampleRate, TRUE)
        v9 == SetUint32(v8, 28, sampleRate * blockAlign, TRUE)
        v10 == SetUint16(v9, 32, blockAlign, TRUE)
        v11 == SetUint16(v10, 34, bitDepth, TRUE)
        v12 == WriteString(v11, 36, TagData)
    IN  SetUint32(v12, 40, dataSize, TRUE)

\* new ArrayBuffer(44 + dataSize)
WavByteLength(numChannels, samples) == 44 + samples * (numChannels * (16 \div 8))

BufferToWav ==
    /\ wav = [pc |-> "none"]
    /\ \E numChannels \in ChannelCounts, sampleRate \in SampleRates,
          quarters \in 0..MaxQuarterSeconds :
          LET samples == (quarters * sampleRate) \div 4
          IN  wav' = [pc |-> "done", numChannels |-> numChannels,
                      sampleRate |-> sampleRate, length |-> samples,
                      byteLength |-> WavByteLength(numChannels, samples),
                      view |-> WavHeader(numChannels, sampleRate, samples)]
    /\ UNCHANGED <<backend, page, gen, studio>>

\* The sample loop of bufferToWav.  A sample is a number in units of
\* 1 / SampleUnit, or NaN; the products with 0x8000 and 0x7FFF are exact
\* in a double.
SampleUnit == 2 ^ 10

Number(units) == [nan |-> FALSE, units |-> units]

NotANumber == [nan |-> TRUE, units |-> 0]

\* the most frames of a buffer whose samples are written
MaxFrames == 2

\* samples inside, at and beyond the limits of [-1, 1], and NaN
SampleInputs ==
    {Number(u) : u \in {0 - 2 * SampleUnit, 0 - SampleUnit, 0 - 512, 0 - 1,
                        0, 1, 512, SampleUnit, 2 * SampleUnit}}
        \cup {NotANumber}

\* Math.min(a, b) and Math.max(a, b): NaN when an argument is NaN
MathMin(a, b) ==
    IF a.nan \/ b.nan THEN NotANumber
    ELSE IF a.units <= b.units THEN a ELSE b

MathMax(a, b) ==
    IF a.nan \/ b.nan THEN NotANumber
    ELSE IF a.units >= b.units THEN a ELSE b

\* the value handed to setInt16 when the sample is not clamped
ScaledUnclamped(sample) ==
    IF sample.nan THEN NotANumber
    ELSE IF sample.units < 0 THEN Number(sample.units * 32768)
    ELSE Number(sample.units * 32767)

\* sample = Math.max(-1, Math.min(1, sample));
\* sample < 0 ? sample * 0x8000 : sample * 0x7FFF
Scaled(sample) ==
    LET clamped == MathMax(Number(0 - SampleUnit),
                           MathMin(Number(SampleUnit), sample))
    IN  IF clamped.nan THEN NotANumber
        ELSE IF clamped.units < 0 THEN Number(clamped.units * 32768)
        ELSE Number(clamped.units * 32767)

\* ToInt16 of ECMAScript as an unsigned 16-bit pattern: NaN gives 0, a
\* number is truncated toward zero and taken modulo 2^16
ToUint16(value) ==
    IF value.nan THEN 0
    ELSE LET truncated == IF value.units >= 0
                          THEN value.units \div SampleUnit
                          ELSE 0 - ((0 - value.units) \div SampleUnit)
         IN  truncated % 65536

\* DataView.setInt16(offset, value, littleEndian)
SetInt16(view, offset, value, littleEndian) ==
    SetUint16(view, offset, ToUint16(value), littleEndian)

\* for (i < samples) for (channel < numChannels) { ...; offset += 2 }
\* from the iteration (i, channel) on; the result is the view, the offset
\* and the calls of setInt16 made
RECURSIVE WriteSamples(_, _, _, _, _)
WriteSamples(out, channels, samples, i, channel) ==
    IF i >= samples THEN out
    ELSE IF channel >= Len(channels)
    THEN WriteSamples(out, channels, samples, i + 1, 0)
    ELSE LET value == Scaled(At(At(channels, channel), i))
         IN  WriteSamples(
                 [view |-> SetInt16(out.view, out.offset, value, TRUE),
                  offset |-> out.offset + 2,
                  writes |-> Append(out.writes,
                                    [offset |-> out.offset, i |-> i,
                                     channel |-> channel, value |-> value])],
                 channels, samples, i, channel + 1)

\* one call of bufferToWav on a short buffer: the header, then the samples
BufferToWavSamples ==
    /\ wav = [pc |-> "none"]
    /\ \E numChannels \in ChannelCounts, samples \in 0..MaxFrames :
          \E channels \in [1..numChannels -> [1..samples -> SampleInputs]] :
             LET byteLength == WavByteLength(numChannels, samples)
                 header == WavHeader(numChannels, 44100, samples)
                 out == WriteSamples(
                            [view |-> [b \in 0..(byteLength - 1) |->
                                          IF b < 44 THEN header[b] ELSE 0],
                             offset |-> 44, writes |-> <<>>],
                            channels, samples, 0, 0)
             IN  wav' = [pc |-> "samples", numChannels |-> numChannels,
                         length |-> samples, channels |-> channels,
                         byteLength |-> byteLength, view |-> out.view,
                         offset |-> out.offset, writes |-> out.writes]
    /\ UNCHANGED <<backend, page, gen, studio>>

\* ---------------------------------------------------------------- the App

\* The App component of the frontend.  A text field is modelled by whether
\* its trimmed value is non-empty, a file input by whether a file is chosen.
\* A file of the server is its number in the order the server named them;
\* 0 stands for the empty string and for null.  The url and the filename of
\* a response name the same file.  mixedUrl is modelled by the two files
\* the mix was made of.

\* the most requests in flight at once, and the most files the server names
MaxFetches == 2
MaxServed == 3

BeatModes == {"upload", "create", "ai"}

NoMix == [beat |-> 0, vocal |-> 0]

\* the useState initial values
AppInitial ==
    [lyrics |-> FALSE, beatFile |-> FALSE, beatUrl |-> 0, beatFilename |-> 0,
     vocalUrl |-> 0, vocalFilename |-> 0, mixedUrl |-> NoMix,
     loading |-> FALSE, beatMode |-> "upload", aiBeatDescription |-> FALSE,
     voiceFiles |-> FALSE, clonedVoiceId |-> 0, isCloningVoice |-> FALSE]

\* fetch(...): the handler waits for the response with the values of the
\* render it was called in.  `cleared` records which of the results have
\* been cleared by resetAll or switchBeatMode while the request is in flight.
Fetch(fn) ==
    /\ Len(fetches) < MaxFetches
    /\ fetches' = Append(fetches,
                         [fn |-> fn, beatFilename |-> app.beatFilename,
                          vocalFilename |-> app.vocalFilename, cleared |-> {}])

\* onChange of the lyrics textarea
SetLyrics ==
    /\ \E typed \in BOOLEAN : app' = [app EXCEPT !.lyrics = typed]
    /\ UNCHANGED <<backend, gen, wav, studio, sequence, fetches, served>>

\* onChange of the beat file input, rendered in the upload mode
HandleBeatSelect ==
    /\ app.beatMode = "upload"
    /\ app' = [app EXCEPT !.beatFile = TRUE]
    /\ UNCHANGED <<backend, gen, wav, studio, sequence, fetches, served>>

\* onChange of the description textarea, rendered in the ai mode
SetAiBeatDescription ==
    /\ app.beatMode = "ai"
    /\ \E typed \in BOOLEAN : app' = [app EXCEPT !.aiBeatDescription = typed]
    /\ UNCHANGED <<backend, gen, wav, studio, sequence, fetches, served>>

\* the voice name and the voice samples are entered; the inputs are
\* disabled once a voice is cloned and while one is being cloned
HandleVoiceSelect ==
    /\ app.clonedVoiceId = 0
    /\ ~app.isCloningVoice
    /\ app' = [app EXCEPT !.voiceFiles = TRUE]
    /\ UNCHANGED <<backend, gen, wav, studio, sequence, fetches, served>>

\* a click on Upload Beat, disabled={!beatFile || loading}
UploadBeat ==
    /\ app.beatMode = "upload"
    /\ app.beatFile
    /\ ~app.loading
    /\ Fetch("uploadBeat")
    /\ app' = [app EXCEPT !.loading = TRUE]
    /\ UNCHANGED <<backend, gen, wav, studio, sequence, served>>

\* a click on Generate Beat, disabled={!aiBeatDescription.trim() || loading}
GenerateAIBeat ==
    /\ app.beatMode = "ai"
    /\ app.aiBeatDescription
    /\ ~app.loading
    /\ Fetch("generateAIBeat")
    /\ app' = [app EXCEPT !.loading = TRUE]
    /\ UNCHANGED <<backend, gen, wav, studio, sequence, served>>

\* The Beat Studio, rendered in the create mode, uploads an exported beat;
\* its export button is disabled while the App is loading.
StudioExport ==
    /\ app.beatMode = "create"
    /\ ~app.loading
    /\ Fetch("exportBeat")
    /\ UNCHANGED <<backend, gen, wav, studio, sequence, app, served>>

\* a click on Clone Voice
CloneVoice ==
    /\ app.voiceFiles
    /\ ~app.isCloningVoice
    /\ ~app.loading
    /\ Fetch("cloneVoice")
    /\ app' = [app EXCEPT !.isCloningVoice = TRUE]
    /\ UNCHANGED <<backend, gen, wav, studio, sequence, served>>

\* a click on Generate AI Singing, disabled={!lyrics.trim() || loading}
GenerateVocals ==
    /\ app.lyrics
    /\ ~app.loading
    /\ Fetch("generateVocals")
    /\ app' = [app EXCEPT !.loading = TRUE, !.vocalUrl = 0, !.mixedUrl = NoMix]
    /\ UNCHANGED <<backend, gen, wav, studio, sequence, served>>

\* a click on Mix, disabled={!beatFilename || !vocalFilename || loading}
MixAudio ==
    /\ app.beatFilename # 0
    /\ app.vocalFilename # 0
    /\ ~app.loading
    /\ Fetch("mixAudio")
    /\ app' = [app EXCEPT !.loading = TRUE]
    /\ UNCHANGED <<backend, gen, wav, studio, sequence, served>>

\* the rest of a handler after its fetch: the state it sets from a response
\* that is ok and names `file`, or in its catch block
Settled(a, call, ok, file) ==
    IF call.fn \in {"uploadBeat", "generateAIBeat"}
    THEN IF ok THEN [a EXCEPT !.beatUrl = file, !.beatFilename = file,
                              !.loading = FALSE]
         ELSE [a EXCEPT !.loading = FALSE]
    ELSE IF call.fn = "exportBeat"
    THEN IF ok THEN [a EXCEPT !.beatUrl = file, !.beatFilename = file]
         ELSE a
    ELSE IF call.fn = "cloneVoice"
    THEN IF ok THEN [a EXCEPT !.clonedVoiceId = file, !.voiceFiles = FALSE,
                              !.isCloningVoice = FALSE]
         ELSE [a EXCEPT !.isCloningVoice = FALSE]
    ELSE IF call.fn = "generateVocals"
    THEN IF ok THEN [a EXCEPT !.vocalUrl = file, !.vocalFilename = file,
                              !.loading = FALSE]
         ELSE [a EXCEPT !.loading = FALSE]
    ELSE IF ok THEN [a EXCEPT !.mixedUrl = [beat |-> call.beatFilename,
                                            vocal |-> call.vocalFilename],
                              !.loading = FALSE]
         ELSE [a EXCEPT !.loading = FALSE]

\* The response of a request in flight arrives, in any order: an ok
\* response of a route that stores a file names a new file, the mix route
\* answers for the two files of its request.
Respond ==
    \E k \in 1..Len(fetches), ok \in BOOLEAN :
        /\ ok => served < MaxServed
        /\ served' = IF ok /\ fetches[k].fn # "mixAudio" THEN served + 1
                     ELSE served
        /\ app' = Settled(app, fetches[k], ok, served + 1)
        /\ fetches' = Without(fetches, k)
        /\ UNCHANGED <<backend, gen, wav, studio, sequence>>

\* the requests in flight when resetAll or switchBeatMode clears results
InFlight(results) ==
    [k \in 1..Len(fetches) |->
        [fetches[k] EXCEPT !.cleared = @ \cup results]]

\* a click on Start Over
ResetAll ==
    /\ app' = [app EXCEPT !.beatFile = FALSE, !.beatUrl = 0,
                          !.beatFilename = 0, !.vocalUrl = 0,
                          !.vocalFilename = 0, !.mixedUrl = NoMix,
                          !.lyrics = FALSE, !.voiceFiles = FALSE,
                          !.clonedVoiceId = 0]
    /\ fetches' = InFlight({"beat", "vocal", "mixed", "voice"})
    /\ UNCHANGED <<backend, gen, wav, studio, sequence, served>>

\* a click on one of the three mode buttons
SwitchBeatMode ==
    /\ \E mode \in BeatModes :
          app' = [app EXCEPT !.beatMode = mode, !.beatUrl = 0,
                             !.beatFilename = 0, !.beatFile = FALSE,
                             !.aiBeatDescription = FALSE]
    /\ fetches' = InFlight({"beat"})
    /\ UNCHANGED <<backend, gen, wav, studio, sequence, served>>

\* ------------------------------------------------------- specification

Init ==
    /\ dir = {}
    /\ uuid = [p \in Prefixes |-> 0]
    /\ env \in Deployments
    /\ resp = [r \in Routes |-> <<>>]
    /\ up = UpIdle
    /\ cv = CvIdle
    /\ gv = GvIdle
    /\ gm = GmIdle
    /\ mx = MxIdle
    /\ cl = ClIdle
    /\ gen = [part |-> "none"]
    /\ wav = [pc |-> "none"]
    /\ drumSteps = INITIAL_STEPS
    /\ melodySteps = INITIAL_STEPS
    /\ drumPattern = EmptyDrums(INITIAL_STEPS)
    /\ melodyPattern = EmptyMelody(INITIAL_STEPS)
    /\ mergePattern = EmptyMelody(INITIAL_STEPS)
    /\ bpm = 120
    /\ isMergeMode = FALSE
    /\ rafCallbacks = <<>>
    /\ batchedUpdates = <<>>
    /\ drag = DragIdle
    /\ mounted = TRUE
    /\ isPlaying = FALSE
    /\ audioReady = FALSE
    /\ isExporting = FALSE
    /\ transport = "stopped"
    /\ calls = <<>>
    /\ sequence = [undisposed |-> 0, ref |-> FALSE, started |-> FALSE,
                   cleanup |-> FALSE,
                   deps |-> <<FALSE, INITIAL_STEPS, INITIAL_STEPS, FALSE, 120>>]
    /\ app = AppInitial
    /\ fetches = <<>>
    /\ served = 0

Next ==
    \/ UploadRequest
    \/ CloneVoiceRequest
    \/ CloneVoiceResume
    \/ GenerateVocalsRequest
    \/ GenerateVocalsTtsResume
    \/ GenerateVocalsComposeResume
    \/ GenerateVocalsSeparateResume
    \/ GenerateVocalsUntarResume
    \/ GenerateMusicRequest
    \/ GenerateMusicResume
    \/ MixRequest
    \/ MixProbeResume
    \/ MixFfmpegResume
    \/ CleanupRequest
    \/ Tick

Spec == Init /\ [][Next]_vars

\* one call of generateBeat, part by part
NextGenerate ==
    GenerateBpm \/ GenerateDrum \/ GeneratePhraseStep \/ GenerateMelody

\* The Beat Studio runs in a browser and calls no route: its specifications
\* start with the server of the complete deployment, idle.
InitBrowser == Init /\ env.apiKey = "key"

SpecGenerate == InitBrowser /\ [][NextGenerate]_vars

\* The Beat Studio under clicks: on melody cells (a press and its release),
\* on the merge-mode toggle, on the column buttons, on Clear and on Generate
\* Beat, which also fills the drum grid.
NextStudio ==
    \/ HandleMelodyMouseDown
    \/ PointerUp
    \/ AnimationFrame
    \/ BatchTimeout
    \/ AddDrumColumn
    \/ RemoveDrumColumn
    \/ AddMelodyColumn
    \/ RemoveMelodyColumn
    \/ ToggleMergeMode
    \/ ClearAll
    \/ GenerateBeat

SpecStudio == InitBrowser /\ [][NextStudio]_vars

\* The Beat Studio under drag gestures on its two grids and clicks on the
\* column buttons of the drum grid.
NextDrag ==
    \/ AddDrumColumn
    \/ RemoveDrumColumn
    \/ HandleDrumMouseDown
    \/ HandleMelodyMouseDown
    \/ PointerMove
    \/ PointerUp
    \/ AnimationFrame
    \/ BatchTimeout

SpecDrag == InitBrowser /\ [][NextDrag]_vars

\* the play, stop and export buttons of the Beat Studio
NextTransport ==
    \/ TogglePlay
    \/ TogglePlayResume
    \/ StopPlayback
    \/ ExportBeat
    \/ ExportBeatRender
    \/ ExportBeatFinally

SpecTransport == InitBrowser /\ [][NextTransport]_vars

\* The Beat Studio while it plays: the transport buttons, the tempo slider,
\* the column buttons of the drum grid, the sequence effect after the
\* renders they cause, and the unmount of the component.
NextSequence ==
    \/ TogglePlay
    \/ TogglePlayResume
    \/ StopPlayback
    \/ SetBpm
    \/ AddDrumColumn
    \/ RemoveDrumColumn
    \/ AnimationFrame
    \/ SequenceEffect
    \/ Unmount

SpecSequence == InitBrowser /\ [][NextSequence]_vars

\* clicks on drum cells, a press and its release, with the timeout that
\* applies the updates of the presses, and clicks on the column buttons of
\* the drum grid, which leave the values of the cells as they are
NextClicks ==
    \/ HandleDrumMouseDown
    \/ PointerUp
    \/ BatchTimeout
    \/ AddDrumColumn
    \/ RemoveDrumColumn
    \/ AnimationFrame

SpecClicks == InitBrowser /\ [][NextClicks]_vars

\* the App under its inputs and buttons, with the responses of the server
NextApp ==
    \/ SetLyrics
    \/ HandleBeatSelect
    \/ SetAiBeatDescription
    \/ HandleVoiceSelect
    \/ UploadBeat
    \/ GenerateAIBeat
    \/ StudioExport
    \/ CloneVoice
    \/ GenerateVocals
    \/ MixAudio
    \/ Respond
    \/ ResetAll
    \/ SwitchBeatMode

SpecApp == InitBrowser /\ [][NextApp]_vars

\* the four column buttons, clicked any number of times
NextColumns == ColumnClick \/ AnimationFrame

SpecColumns == InitBrowser /\ [][NextColumns]_vars

\* one call of bufferToWav on a rendered buffer
NextWav == BufferToWav

SpecWav == InitBrowser /\ [][NextWav]_vars

\* one call of bufferToWav on a short buffer, sample by sample
NextWavSamples == BufferToWavSamples

SpecWavSamples == InitBrowser /\ [][NextWavSamples]_vars

\* The clients that only upload, mix and clean up, with CLI invocations
\* that terminate: an ended ffprobe or ffmpeg process settles its promise
\* and node resumes the handler.
NextMix ==
    \/ UploadRequest
    \/ MixRequest
    \/ MixProbeResume
    \/ MixFfmpegResume
    \/ CleanupRequest
    \/ Tick

SpecMix ==
    /\ Init /\ [][NextMix]_vars
    /\ WF_vars(MixProbeResume) /\ WF_vars(MixFfmpegResume)

\* ------------------------------------------------------------- claims

Answered(route) == Finished(route) /\ Len(resp[route]) = 1
Answer(route) == resp[route][1]
Succeeded(route) == Answered(route) /\ Answer(route).status = 200

\* the outcomes of the stem separation step that find no vocal stem
StemFallbacks == {"throws", "not-gzip", "tar-failed", "no-vocal"}

CarriesVoiceId(voiceId) == voiceId \notin {Undefined, Null, "", "null"}

\* C2 as stated: a request with a voice id never calls compose, and a
\* request without one never calls text-to-speech.
C2_TtsOrCompose ==
    /\ CarriesVoiceId(gv.voiceId) => ~Includes(gv.calls, "compose")
    /\ ~CarriesVoiceId(gv.voiceId) => ~Includes(gv.calls, "tts")

\* C2: a request with a voice id calls text-to-speech first, and calls
\* compose only after that text-to-speech call has failed, as its second
\* call; a request without a voice id calls compose first and never calls
\* text-to-speech.
C2_TtsFirstComposeOnTtsFailure ==
    /\ (CarriesVoiceId(gv.voiceId) /\ gv.calls # <<>>) =>
           /\ gv.calls[1] = "tts"
           /\ \A i \in 2..Len(gv.calls) : gv.calls[i] # "tts"
           /\ Includes(gv.calls, "compose") =>
                  /\ gv.tts \in {"http-error", "network-error"}
                  /\ gv.calls[2] = "compose"
           /\ gv.tts = "audio" => gv.calls = <<"tts">>
    /\ (~CarriesVoiceId(gv.voiceId) /\ gv.calls # <<>>) =>
           /\ gv.calls[1] = "compose"
           /\ ~Includes(gv.calls, "tts")
           /\ gv.tts = "none"

\* a request with a voice id whose text-to-speech call failed was served by
\* compose and stem separation
C2_Witness ==
    /\ gv.pc = "done" /\ gv.voiceId = "voice-1"
    /\ gv.tts = "http-error"
    /\ gv.calls = <<"tts", "compose", "separateStems">>
    /\ Succeeded("generate-vocals")

\* C3 as stated: once a generate-vocals request is answered, its full song,
\* its stems archive and its extract directory are gone from the temp
\* directory.
C3_IntermediatesRemoved ==
    gv.pc = "done" =>
        \A name \in {gv.fullSong, gv.tar, gv.extract} : ~Exists(dir, name)

\* C4 as stated: once a clone-voice request is answered, none of the files
\* multer stored for it is in the temp directory.
C4_CloneUploadsRemoved ==
    cv.pc = "done" => \A name \in cv.files : ~Exists(dir, name)

FileRoutes == {"upload", "generate-vocals", "generate-music", "mix"}

\* C5: a success response of upload, generate-vocals, generate-music or
\* mix carries a filename and the url /api/files/<filename>, and a file of
\* that name is in the temp directory when the response is sent.
C5_SuccessNamesStoredFile ==
    \A route \in FileRoutes :
        Succeeded(route) =>
            /\ Answer(route).filename # NoName
            /\ Answer(route).url = [path |-> "/api/files/", file |-> Answer(route).filename]
            /\ IsFile(dir, Answer(route).filename)

\* a mix has been written and answered
C5_Witness ==
    /\ mx.pc = "done" /\ Succeeded("mix")
    /\ Answer("mix").filename = mx.mixed
    /\ IsFile(dir, mx.mixed)

\* the step in which a mix request arrives
MixArrives == mx.pc \in {"idle", "done"} /\ mx'.pc \in {"done", "ffprobe"}

\* the arriving mix request is refused with the status, with no CLI call
\* and no new mixed- file
MixRefused(status) ==
    /\ mx'.pc = "done" /\ mx'.calls = <<>>
    /\ Len(resp'["mix"]) = 1 /\ resp'["mix"][1].status = status
    /\ \A e \in dir' : e.name.prefix = "mixed-" => e \in dir

\* C6: a mix request without beatFilename or vocalFilename is answered 400
\* and one that names a file missing from the temp directory 404, both
\* without a CLI call or a new mixed- file; a CLI tool is called only for a
\* request whose two files were there when it arrived.
C6_MixChecksBeforeTools ==
    [][/\ MixArrives =>
            LET named == mx'.beat # NoName /\ mx'.vocal # NoName
                there == Exists(dir, mx'.beat) /\ Exists(dir, mx'.vocal)
            IN  /\ ~named => MixRefused(400)
                /\ (named /\ ~there) => MixRefused(404)
                /\ (named /\ there) => mx'.pc = "ffprobe" /\ resp'["mix"] = <<>>
       /\ (mx'.calls # <<>> /\ ~MixArrives) => mx.calls # <<>>
      ]_vars

\* a request naming a beat that is there and a vocal that is not was refused
C6_Witness ==
    /\ mx.pc = "done" /\ mx.calls = <<>>
    /\ mx.beat # NoName /\ mx.vocal # NoName
    /\ Exists(dir, mx.beat) /\ ~Exists(dir, mx.vocal)
    /\ Answered("mix") /\ Answer("mix").status = 404

\* C7 as stated: the mix route answers 'ffmpeg not found' exactly when the
\* ffmpeg binary is missing; a failure of ffprobe, or of an installed
\* ffmpeg, goes to the generic error handler.
C7_NotFoundOnlyWhenMissing ==
    (mx.pc = "done" /\ mx.calls # <<>> /\ Len(resp["mix"]) = 1) =>
        /\ Answer("mix").error = FfmpegNotFound <=> mx.fail = "ffmpeg-missing"
        /\ mx.fail \in {"ffprobe-failed", "ffprobe-missing", "ffmpeg-failed"} =>
               Answer("mix") = ErrorMiddleware(Answer("mix").error)

\* C8 as stated: a cleanup request removes exactly the entries older than
\* one hour, directories included, and answers with their number.
C8_CleanupRemovesOldEntries ==
    [][cl'.pc = "done" =>
          /\ dir' = {e \in dir : ~TooOld(e)}
          /\ Len(resp'["cleanup"]) = 1
          /\ resp'["cleanup"][1].status = 200
          /\ resp'["cleanup"][1].count = Cardinality({e \in dir : TooOld(e)})
      ]_vars

HasAllowedExtension(file) ==
    /\ Len(file.originalname) >= 2
    /\ file.originalname[Len(file.originalname)] \in
           {".mp3", ".MP3", ".wav", ".WAV", ".m4a", ".M4A", ".ogg", ".OGG"}
HasNoExtension(file) == Len(file.originalname) = 1
HasAudioMime(file) == file.mimetype \in {"audio/mpeg", "audio/wav", "audio/ogg"}

UploadStored == up.stored # NoName /\ IsFile(dir, up.stored) /\ Succeeded("upload")
UploadRejected ==
    /\ up.stored = NoName
    /\ Answered("upload") /\ Answer("upload").status >= 400
    /\ Answer("upload").error = <<"Only MP3, WAV, M4A, and OGG files are allowed">>
UploadWithoutFile ==
    up.file = NoFile =>
        /\ up.stored = NoName /\ Answered("upload")
        /\ Answer("upload").status = 400
        /\ Answer("upload").error = <<"No file uploaded">>

\* C9 as stated: upload stores a file only if its extension is one of the
\* four or its MIME type starts with audio/, rejects every other file, and
\* answers 400 to a request without a file.
C9_UploadAllowList ==
    up.pc = "done" =>
        /\ UploadWithoutFile
        /\ up.file # NoFile =>
               IF HasAllowedExtension(up.file) \/ HasAudioMime(up.file)
               THEN UploadStored ELSE UploadRejected

\* C9: upload stores a file exactly if its extension is, in any letter
\* case, one of .mp3 .wav .m4a .ogg, or it has no extension, or its MIME
\* type starts with audio/; every other file is rejected with 'Only MP3,
\* WAV, M4A, and OGG files are allowed'; a request without a file gets 400
\* 'No file uploaded'.
C9_UploadAllowListOrNoExtension ==
    up.pc = "done" =>
        /\ UploadWithoutFile
        /\ up.file # NoFile =>
               IF \/ HasAllowedExtension(up.file)
                  \/ HasNoExtension(up.file)
                  \/ HasAudioMime(up.file)
               THEN UploadStored ELSE UploadRejected

\* a blob without extension and without an audio MIME type was stored
C9_Witness ==
    /\ up.pc = "done"
    /\ up.file = [originalname |-> <<"blob">>, mimetype |-> "application/octet-stream"]
    /\ UploadStored

\* the request did not do what it was sent for
Failed(route) ==
    CASE route = "upload" -> up.stored = NoName
      [] route = "clone-voice" -> cv.fail # "none"
      [] route = "generate-vocals" -> gv.fail # "none"
      [] route = "generate-music" -> gm.fail # "none"
      [] route = "mix" -> mx.fail # "none"
      [] route = "cleanup" -> cl.fail # "none"

MixInFlight == mx.pc \in {"ffprobe", "ffmpeg"}
MixInputGone == ~Exists(dir, mx.beat) \/ ~Exists(dir, mx.vocal)

C12_MixRespondsWhenToolsTerminate ==
    /\ MixInFlight ~> (mx.pc = "done" /\ Len(resp["mix"]) = 1)
    /\ [](MixInFlight => resp["mix"] = <<>>)
    /\ [][(MixInFlight /\ mx'.pc # mx.pc) =>
             \/ mx.pc = "ffprobe" /\ mx'.pc \in {"ffmpeg", "done"}
             \/ mx.pc = "ffmpeg" /\ mx'.pc = "done"]_vars

\* both invocations have terminated and the mix was answered
C12_Witness ==
    /\ mx.pc = "done" /\ mx.calls = <<"ffprobe", "ffmpeg">>
    /\ Succeeded("mix")

C14_PatternsGridShaped ==
    /\ \A inst \in InstrumentNames : Len(drumPattern[inst]) = drumSteps
    /\ Len(melodyPattern) = melodySteps
    /\ Len(mergePattern) = melodySteps

\* the attacks of a note at a step in one pass of playback
Attacks(note, step) ==
    {e \in SequenceEvents : e.kind = "note" /\ e.name = note /\ e.step = step}

\* the steps a .. b are a maximal run of steps, within melodySteps, at which
\* the note is marked merged
MaximalRun(note, a, b) ==
    /\ a <= b
    /\ \A st \in a..b : MarkedMerged(mergePattern, st, note)
    /\ ~(a > 0 /\ MarkedMerged(mergePattern, a - 1, note))
    /\ ~(b + 1 < melodySteps /\ MarkedMerged(mergePattern, b + 1, note))

\* the notes the grid has a row for, and the notes a generated melody holds
Notes == NotesOf(SYNTH_NOTES) \cup UNION {NotesOf(scales[c]) : c \in DOMAIN scales}

\* C15: in one pass of playback, for every note and every maximal run of k
\* consecutive steps at which the note is marked merged, the synth receives
\* exactly one attack of the note, at the first step of the run and k
\* sixteenths long, and none at the other steps of the run; a note that is
\* not marked merged receives one attack of one sixteenth at each step where
\* it is present.
C15_OneAttackPerMergedRun ==
    \A note \in Notes :
        /\ \A a \in 0..(melodySteps - 1), b \in 0..(melodySteps - 1) :
              MaximalRun(note, a, b) =>
                  /\ Attacks(note, a) = {NoteEvent(note, a, b - a + 1)}
                  /\ \A st \in (a + 1)..b : Attacks(note, st) = {}
        /\ \A st \in 0..(melodySteps - 1) :
              (/\ Defined(melodyPattern, st)
               /\ ArrayIncludes(At(melodyPattern, st), note)
               /\ ~MarkedMerged(mergePattern, st, note)) =>
                  Attacks(note, st) = {NoteEvent(note, st, 1)}

\* C16: in every pattern state the events exportBeat schedules in the offline
\* context are the events the callback of the live sequence triggers in one
\* pass over the steps 0 .. max(drumSteps, melodySteps) - 1.
C16_ExportSchedulesWhatPlays == ExportEvents = SequenceEvents

\* a tied C4 over the first two steps in a pattern that also has drum hits
C16_Witness ==
    /\ NoteEvent("C4", 0, 2) \in ExportEvents
    /\ NoteEvent("C4", 0, 2) \in SequenceEvents
    /\ DrumEvent("kick", 0) \in ExportEvents
    /\ rafCallbacks = <<>>
    /\ batchedUpdates = <<>>

\* whether a cell is on in given patterns
CellOn(drumPat, melodyPat, cell) ==
    IF cell.grid = "drum"
    THEN At(drumPat[At(INSTRUMENTS, cell.row)], cell.step)
    ELSE ArrayIncludes(At(melodyPat, cell.step), NoteOf(cell.row))

\* the cell a deferred write is for
WriteCell(w) ==
    [grid |-> IF w.op = "setDrumStep" THEN "drum" ELSE "melody",
     row |-> w.row, step |-> w.step]

IsWrite(w) == w.op \in {"setDrumStep", "setMelodyNote"}

\* the step is a press: the value of the gesture is the negation of the
\* pressed cell, and the press writes it to that cell
PressWritesNegation ==
    (~drag.isDragging /\ drag'.isDragging) =>
        /\ drag'.setValue = ~CellOn(drumPattern, melodyPattern, drag'.lastDragCell)
        /\ Len(batchedUpdates') = Len(batchedUpdates) + 1
        /\ WriteCell(batchedUpdates'[Len(batchedUpdates')]) = drag'.lastDragCell
        /\ batchedUpdates'[Len(batchedUpdates')].value = drag'.setValue

\* the step is within a gesture: the value stays, and a write that joins the
\* callbacks carries it, for the cell under the pointer
MoveWritesGestureValue ==
    (drag.isDragging /\ drag'.isDragging) =>
        /\ drag'.setValue = drag.setValue
        /\ Len(rafCallbacks') > Len(rafCallbacks) =>
              LET w == rafCallbacks'[Len(rafCallbacks')]
              IN  IsWrite(w) =>
                     /\ w.value = drag.setValue
                     /\ WriteCell(w) = drag'.lastDragCell
                     /\ drag'.lastDragCell # drag.lastDragCell

\* the step is an animation frame: the writes join the batch as they are
FrameKeepsValues ==
    (rafCallbacks # <<>> /\ rafCallbacks' = <<>>) =>
        LET writes == SelectSeq(rafCallbacks, IsWrite)
        IN  /\ Len(batchedUpdates') = Len(batchedUpdates) + Len(writes)
            /\ \A k \in 1..Len(writes) :
                  LET u == batchedUpdates'[Len(batchedUpdates) + k]
                  IN  WriteCell(u) = WriteCell(writes[k]) /\ u.value = writes[k].value

\* the step is the timeout of the batch: each cell holds the value of the
\* last write for it
BatchAppliesValues ==
    (batchedUpdates # <<>> /\ batchedUpdates' = <<>> /\ mounted') =>
        \A k \in 1..Len(batchedUpdates) :
            LET u == batchedUpdates[k]
            IN  (\A j \in (k + 1)..Len(batchedUpdates) :
                    WriteCell(batchedUpdates[j]) # WriteCell(u)) =>
                CellOn(drumPattern', melodyPattern', WriteCell(u)) = u.value

\* a pointermove over the cell written last defers no write, and neither
\* does a pointermove after the release
MoveOverLastCellOrAfterUp ==
    \A element \in Elements :
        (/\ PointerMoveOver(element)
         /\ \/ ~drag.isDragging
            \/ DragKey(drag.listener, element) = drag.lastDragCell) =>
            UNCHANGED <<rafCallbacks, batchedUpdates, grid, drag>>

\* C17: within one drag gesture (a press, pointermoves, a release) every
\* write applies the one value fixed at the press, the negation of the
\* pressed cell's state; a pointermove over the cell written last writes
\* nothing; after the release no pointermove changes the pattern.
C17_DragPaintsOneValue ==
    [][/\ PressWritesNegation
       /\ MoveWritesGestureValue
       /\ FrameKeepsValues
       /\ BatchAppliesValues
       /\ MoveOverLastCellOrAfterUp]_vars

\* a gesture that turned the kick on at step 0 and has moved on to step 1
C17_Witness ==
    /\ drag.isDragging
    /\ drag.listener = "drum"
    /\ drag.setValue
    /\ drag.lastDragCell = [grid |-> "drum", row |-> 0, step |-> 1]
    /\ At(drumPattern["kick"], 0)
    /\ Len(rafCallbacks) = 1
    /\ rafCallbacks[1].op = "setDrumStep"
    /\ rafCallbacks[1].step = 1
    /\ rafCallbacks[1].value

HeaderField(offset, size) ==
    LET RECURSIVE Value(_)
        Value(k) == IF k = size THEN 0
                    ELSE wav.view[offset + k] + 256 * Value(k + 1)
    IN  Value(0)

HeaderTag(offset) == [k \in 1..4 |-> wav.view[offset + k - 1]]

\* C19: the 44-byte header bufferToWav writes is consistent with its buffer:
\* the file is 44 + dataSize bytes long, the RIFF size is 36 + dataSize, the
\* data size is samples * channels * 2, the fmt chunk has size 16, format 1
\* and 16 bits per sample, the block align is channels * 2 and the byte rate
\* sampleRate * blockAlign, every number little-endian.
C19_WavHeaderConsistent ==
    wav.pc = "done" =>
        LET dataSize == wav.length * wav.numChannels * 2
            blockAlign == wav.numChannels * 2
        IN  /\ DOMAIN wav.view = 0..43
            /\ wav.byteLength = 44 + dataSize
            /\ HeaderTag(0) = TagRIFF
            /\ HeaderField(4, 4) = 36 + dataSize
            /\ HeaderTag(8) = TagWAVE
            /\ HeaderTag(12) = TagFmt
            /\ HeaderField(16, 4) = 16
            /\ HeaderField(20, 2) = 1
            /\ HeaderField(22, 2) = wav.numChannels
            /\ HeaderField(24, 4) = wav.sampleRate
            /\ HeaderField(28, 4) = wav.sampleRate * blockAlign
            /\ HeaderField(32, 2) = blockAlign
            /\ HeaderField(34, 2) = 16
            /\ HeaderTag(36) = TagData
            /\ HeaderField(40, 4) = dataSize

\* three seconds of stereo audio at 44.1kHz: every byte of the data size is
\* in use
C19_Witness ==
    /\ wav.pc = "done"
    /\ wav.numChannels = 2
    /\ wav.sampleRate = 44100
    /\ wav.length = 132300
    /\ wav.byteLength = 529244
    /\ wav.view[40] = 48 /\ wav.view[41] = 19 /\ wav.view[42] = 8

\* the 16 steps of a generated beat
GeneratedSteps == 16

GeneratedTempos == (85..95) \cup (100..115) \cup (120..135) \cup (140..155)

\* C20: generateBeat leaves the tempo in one of the ranges 85-95, 100-115,
\* 120-135 and 140-155, all inside the 60-180 of the tempo slider; it sets
\* both step counts to 16; each of the eight drum arrays has length 16, the
\* kick has step 0 and the snare has steps 4 and 12; the melody has length
\* 16 and is the two 4-step phrases in the order AABA or ABAB.
C20_GenerateBeatShape ==
    /\ gen.part = "bpm" =>
          /\ gen.bpm \in GeneratedTempos
          /\ gen.bpm \in 60..180
          /\ gen.drumSteps = GeneratedSteps
          /\ gen.melodySteps = GeneratedSteps
    /\ gen.part = "drum" =>
          /\ \E k \in 1..8 : INSTRUMENTS[k] = gen.inst
          /\ Len(gen.array) = GeneratedSteps
          /\ gen.inst = "kick" => At(gen.array, 0)
          /\ gen.inst = "snare" => At(gen.array, 4) /\ At(gen.array, 12)
    /\ gen.part = "step" => Len(gen.notes) \in 0..2
    /\ gen.part = "melody" =>
          /\ Len(gen.phraseA) = 4
          /\ Len(gen.phraseB) = 4
          /\ Len(gen.melody) = GeneratedSteps
          /\ \/ gen.melody = gen.phraseA \o gen.phraseA \o gen.phraseB \o gen.phraseA
             \/ gen.melody = gen.phraseA \o gen.phraseB \o gen.phraseA \o gen.phraseB

C20_Witness ==
    /\ gen.part = "bpm"
    /\ gen.bpm = 155
    /\ gen.drumSteps = 16

\* C21: at most one Tone.Sequence is undisposed at any time, the one
\* sequenceRef holds; a run of the sequence effect starts the sequence it
\* creates only when isPlaying is true; after the unmount no sequence is
\* left undisposed.
C21_OneUndisposedSequence ==
    /\ [](/\ sequence.undisposed <= 1
          /\ sequence.ref <=> sequence.undisposed = 1
          /\ ~mounted => sequence.undisposed = 0)
    /\ [][(sequence' # sequence /\ sequence'.started) => isPlaying]_vars

\* the effect has replaced a started sequence by a new one
C21_Witness ==
    /\ sequence.undisposed = 1
    /\ sequence.started
    /\ sequence.deps[5] # 120
    /\ sequence.deps[2] # INITIAL_STEPS

\* the 16-bit value read at an offset of the view, least significant
\* byte first, as a signed integer
Int16At(view, offset) ==
    LET unsigned == view[offset] + 256 * view[offset + 1]
    IN  IF unsigned >= 32768 THEN unsigned - 65536 ELSE unsigned

\* C22: bufferToWav writes the sample i of channel c at the byte offset
\* 44 + 2 * (i * numChannels + c), least significant byte first; every
\* value it hands to setInt16 lies in -32768 .. 32767 (or is NaN, written
\* as 0); it writes exactly dataSize bytes after the header, which it
\* leaves as written.
C22_SamplesInterleaved ==
    wav.pc = "samples" =>
        LET dataSize == wav.length * wav.numChannels * 2
        IN  /\ Len(wav.writes) = wav.length * wav.numChannels
            /\ wav.offset = 44 + dataSize
            /\ wav.byteLength = 44 + dataSize
            /\ \A k \in 1..Len(wav.writes) :
                  LET w == wav.writes[k]
                  IN  /\ w.offset = 44 + 2 * (w.i * wav.numChannels + w.channel)
                      /\ w.offset = 44 + 2 * (k - 1)
                      /\ w.value.units >= (0 - 32768) * SampleUnit
                      /\ w.value.units <= 32767 * SampleUnit
            /\ \A i \in 0..(wav.length - 1), c \in 0..(wav.numChannels - 1) :
                  LET sample == At(At(wav.channels, c), i)
                      stored == Int16At(wav.view, 44 + 2 * (i * wav.numChannels + c))
                  IN  /\ stored \in (0 - 32768)..32767
                      /\ sample.nan => stored = 0
                      /\ (~sample.nan /\ sample.units >= SampleUnit) => stored = 32767
                      /\ (~sample.nan /\ sample.units <= 0 - SampleUnit) => stored = 0 - 32768
                      /\ (~sample.nan /\ sample.units = 512) => stored = 16383
                      /\ (~sample.nan /\ sample.units = 0 - 512) => stored = 0 - 16384
                      /\ (~sample.nan /\ sample.units \in {0 - 1, 0}) => stored \in {0 - 32, 0}
            /\ LET header == WavHeader(wav.numChannels, 44100, wav.length)
               IN  \A b \in 0..43 : wav.view[b] = header[b]

\* a stereo buffer of two frames with a sample beyond 1, a negative sample
\* and a NaN
C22_Witness ==
    /\ wav.pc = "samples"
    /\ wav.numChannels = 2
    /\ wav.length = 2
    /\ At(At(wav.channels, 1), 0) = Number(2 * SampleUnit)
    /\ At(At(wav.channels, 0), 1) = Number(0 - 512)
    /\ At(At(wav.channels, 1), 1) = NotANumber
    /\ Int16At(wav.view, 46) = 32767
    /\ Int16At(wav.view, 48) = 0 - 16384

\* C23: after any sequence of clicks on the column buttons, also clicks
\* handled before the animation frame of an earlier click, drumSteps and
\* melodySteps are within MIN_STEPS .. MAX_STEPS.
C23_StepsWithinLimits ==
    /\ drumSteps \in MIN_STEPS..MAX_STEPS
    /\ melodySteps \in MIN_STEPS..MAX_STEPS

\* C24: every note marked in mergePattern at a step is a note of
\* melodyPattern at that step.
C24_MergeMarkHasNote ==
    \A k \in 1..Len(mergePattern) :
        \A j \in 1..Len(mergePattern[k]) :
            /\ k <= Len(melodyPattern)
            /\ ArrayIncludes(melodyPattern[k], mergePattern[k][j])

\* C25: every note stored in melodyPattern is one of SYNTH_NOTES, the
\* notes that have a row in the piano roll.
C25_NotesAreSynthNotes ==
    \A k \in 1..Len(melodyPattern) :
        \A j \in 1..Len(melodyPattern[k]) :
            ArrayIncludes(SYNTH_NOTES, melodyPattern[k][j])

\* the value a drum cell holds once the updates that wait for the timeout
\* have been applied
ValueAfterBatch(cell) ==
    At(RunUpdates(Grid, batchedUpdates).drumPattern[At(INSTRUMENTS, cell.row)],
       cell.step)

\* a mousedown on the drum cell has been handled in this step
PressOn(cell) ==
    /\ ~drag.isDragging
    /\ drag'.isDragging
    /\ drag'.lastDragCell = cell
    /\ Len(batchedUpdates') = Len(batchedUpdates) + 1

\* C26: clicks on a drum cell toggle it, n clicks leaving the cell at its
\* initial value for even n and at the negated value for odd n: every click
\* writes the negation of the value the clicks before it leave in the cell,
\* also a click handled while the update of the click before it waits for
\* the timeout.
C26_ClickToggles ==
    [][\A cell \in DrumCells :
          PressOn(cell) =>
              batchedUpdates'[Len(batchedUpdates')].value = ~ValueAfterBatch(cell)]_vars

\* the calls of exportBeat that have passed initAudio and not yet reached
\* their finally block
Exporting == {k \in 1..Len(calls) : calls[k].fn = "exportBeat" /\ calls[k].pc = "render"}

\* C27: at most one export is in progress at any time, and while an export
\* is in progress the sequencer is not playing and the transport is not
\* started.
C27_OneExportNoPlayback ==
    /\ Cardinality(Exporting) <= 1
    /\ Exporting # {} => (~isPlaying /\ transport = "stopped")

\* C28: whenever mixedUrl is non-empty, the mix it names was made of the
\* current beatFilename and the current vocalFilename.
C28_MixOfCurrentFiles ==
    app.mixedUrl # NoMix =>
        /\ app.mixedUrl.beat = app.beatFilename
        /\ app.mixedUrl.vocal = app.vocalFilename

\* C29: the response of a request that was in flight when resetAll or
\* switchBeatMode cleared a result leaves that result as it is.
C29_ClearedStaysCleared ==
    [][\A k \in 1..Len(fetches) :
          fetches' = Without(fetches, k) =>
              /\ "beat" \in fetches[k].cleared =>
                    /\ app'.beatUrl = app.beatUrl
                    /\ app'.beatFilename = app.beatFilename
              /\ "vocal" \in fetches[k].cleared =>
                    /\ app'.vocalUrl = app.vocalUrl
                    /\ app'.vocalFilename = app.vocalFilename
              /\ "mixed" \in fetches[k].cleared =>
                    app'.mixedUrl = app.mixedUrl
              /\ "voice" \in fetches[k].cleared =>
                    app'.clonedVoiceId = app.clonedVoiceId]_vars

\* C30: while ELEVENLABS_API_KEY is unset or the placeholder, no request of
\* clone-voice, generate-vocals or generate-music has made a call to the
\* hosted API.
C30_NoCallWithoutKey ==
    ClientThrows =>
        /\ ~cv.called
        /\ \A k \in 1..Len(gv.calls) :
              gv.calls[k] \notin {"tts", "compose", "separateStems"}
        /\ gm.calls = <<>>

====
